---- MODULE Spec2Model ----
(***************************************************************************)
(* A model of the alerting gate (alerts/alert_manager.py over              *)
(* storage/sql_client.py, called from main.py) and of the market-data      *)
(* stream listener (ingestion/websocket_handler.py).                       *)
(*                                                                         *)
(* Time in the alert model is the wall clock in minutes.  Every await of   *)
(* the code is a step boundary; the clock may advance between two steps.   *)
(***************************************************************************)
EXTENDS Integers, Sequences, FiniteSets, TLC

\* ------------------------------------------------------------------ bounds
\* The clock advances TickMinutes at a time up to MaxTime.
TickMinutes == 30
MaxTime == 90
\* The alerts table holds at most MaxRows rows (a row of another writer
\* stands for n alerts stored together).
MaxRows == 2
\* ... and MaxRowsSerial rows where calls do not overlap.
MaxRowsSerial == 3
\* The listener fails at most MaxFailStreak times in a row, has at most
\* MaxHandlers handlers registered and reads frames of at most MaxFrame events.
MaxFailStreak == 7
MaxHandlers == 2
MaxFrame == 2
\* The monotonic clock advances TickSeconds at a time up to MaxMono.
TickSeconds == 60
MaxMono == 120
\* The news tool returns at most MaxArticles articles for a ticker.
MaxArticles == 5
\* calculate_score is called at most MaxCalls times for a ticker while the
\* stores and the external tools hold the same.
MaxCalls == 2
\* A price history holds at most MaxSeries bars and turns at most MaxTurn
\* bars before its end.
MaxSeries == 52
MaxTurn == 2
\* The window of a sustained-volume check holds at most MaxBars bars.
MaxBars == 5
\* The storage pools left open are counted up to MaxLeaked.
MaxLeaked == 2
\* The stock_prices table holds at most MaxStored rows of the ticker.
MaxStored == 2

\* ------------------------------------------------------- program constants
deduplication_window_minutes == 60
max_alerts_per_hour == 10
cooldown_period == 30
HourMinutes == 60
DedupQueryLimit == 100
RateQueryLimit == 1000
RecentPruneThreshold == 1000

\* ------------------------------------------------------------------ inputs
Tickers == {"AAA"}
\* A ticker no caller of this process scores: the alerts other writers store.
OtherTicker == "ZZZ"
\* A ticker only the REST poller finds.
PollOnlyTicker == "BBB"
RawTickers == {"AAA", " aaa "}
\* The sizes of what another writer of the alerts table stores in one go.
OtherBatches == {<<OtherTicker, 100>>, <<OtherTicker, 1000>>, <<"AAA", 9>>}

GateCallers == {"stream", "poller"}
Callers == GateCallers \cup {"manual"}
\* The "ev" field of a stream event: aggregate, trade, anything else.
EventTypes == {"A", "T", "status"}

VARIABLES now, db, recent_alerts, call, last, sem, max_concurrent_scoring,
          running, websocket, subscribed_tickers, message_handlers,
          reconnect_backoff, wspc, sleeping, frame, hidx, invoked,
          failStreak, fresh, wsLast, delays, ts_pool, leaked_pools,
          monitor_all, app_running, mono, ticker_last_check, last_start, bar,
          pollpc, poll_queue, mono_now, poll_sleeping, pollLast,
          score_config, scpc, current_volume, volume_score, catalyst_score,
          short_squeeze_score, fundamental_score, pump_potential,
          dilution_risk, score_result, failed,
          volume_spike, world, history,
          periods, prices, tipc, technical_data,
          storage, pushes, pushLast,
          sustained_periods, bar_history, bar_stats, svpc, is_sustained,
          rest_poll_min_volume, session, applied, picked,
          deduplication_window,
          stock_prices, brpc, price_range, current_price_data,
          breakout_result, stored_during

alertVars == <<now, db, recent_alerts, call, last, sem, max_concurrent_scoring>>

\* WebSocketHandler's fields, the locals and the position of listen(), and
\* what is remembered of its run: failStreak counts the failures since the
\* last completed connect-and-subscribe cycle, fresh holds from a sent
\* subscribe message to the next thing read, wsLast is what the last step
\* of the listen task did, delays holds the last two sleeps of the task
\* (the delay and whether it followed a close right after a sent subscribe
\* message); ts_pool is the connection pool of the handler's storage client
\* and leaked_pools the number of pools it opened before and never closed.
wsVars == <<running, websocket, subscribed_tickers, message_handlers,
            reconnect_backoff, wspc, sleeping, frame, hidx, invoked,
            failStreak, fresh, wsLast, delays, ts_pool, leaked_pools>>

\* StockTradingAssistant's settings and fields, the locals and the position
\* of _poll_rest_api, and what is remembered of the run: last_start is when
\* the orchestrator last sent each ticker to scoring, bar is the bar the
\* stream handler has just decided on, pollLast is what the poll cycle at
\* hand came to.
orchVars == <<monitor_all, app_running, mono, ticker_last_check, last_start, bar,
              pollpc, poll_queue, mono_now, poll_sleeping, pollLast>>

\* SwingScoreCalculator's configuration, the position and the locals of
\* calculate_score, what it returned, and the components whose failure the
\* call at hand has met; volume_spike is what detect_volume_spike answered
\* to the call at hand, world is what the stores and the external tools
\* hold (the argument of the calls with it), history is what the calls
\* made so far came to.
scoreVars == <<score_config, scpc, current_volume, volume_score, catalyst_score,
               short_squeeze_score, fundamental_score, pump_potential,
               dilution_risk, score_result, failed,
               volume_spike, world, history>>

\* TechnicalIndicators' configured periods, the closes of the price history
\* at hand, the position of calculate_all_indicators and what it came to.
techVars == <<periods, prices, tipc, technical_data>>

\* The alerts connection pool, the dashboard pushes that are under way and
\* what the last push that ended came to.
lifeVars == <<storage, pushes, pushLast>>

\* VolumeAnalyzer's configured periods, what its two queries answer, the
\* position of _check_sustained_volume and what it returned.
volVars == <<sustained_periods, bar_history, bar_stats, svpc, is_sustained>>

\* The poller's configured minimum volume, the trading session of the poll
\* cycle at hand, the threshold applied in each session so far and whether
\* the last item of the snapshot was kept for scoring.
sessVars == <<rest_poll_min_volume, session, applied, picked>>

\* What the steps of the gate, the listener, the orchestrator, the scorer
\* and the analyzers leave alone: with the poller's sessions, the
\* deduplication window AlertManager is configured with, in minutes.
\* The rows of one ticker in stock_prices, the position and the locals of
\* detect_breakout, what its last call came to, and whether a row was stored
\* while the call ran.
brkVars == <<stock_prices, brpc, price_range, current_price_data, breakout_result,
            stored_during>>

otherVars == <<sessVars, deduplication_window, brkVars>>

vars == <<alertVars, wsVars, orchVars, scoreVars, techVars, lifeVars, volVars, otherVars>>

\* ------------------------------------------------------------ pure helpers
\* utils/helpers.py normalize_ticker: strip, then upper.
normalize_ticker(raw) ==
    CASE raw = "AAA" -> "AAA"
      [] raw = " aaa " -> "AAA"
      [] OTHER -> raw

Reverse(s) == [i \in 1..Len(s) |-> s[Len(s) + 1 - i]]

RECURSIVE TakeLimit(_, _)
\* LIMIT: the first `limit` alerts of rows (a row counts n alerts).
TakeLimit(rows, limit) ==
    IF rows = <<>> \/ limit <= 0 THEN <<>>
    ELSE LET r == Head(rows) IN
         IF r.n >= limit THEN << [r EXCEPT !.n = limit] >>
         ELSE <<r>> \o TakeLimit(Tail(rows), limit - r.n)

\* sql_client.get_recent_alerts: WHERE created_at >= since ORDER BY created_at
\* DESC LIMIT limit.  Rows are kept in insertion order, created_at never
\* decreases, so newest first is the reverse of the table.
get_recent_alerts(rows, limit, since) ==
    TakeLimit(SelectSeq(Reverse(rows), LAMBDA r: r.created_at >= since), limit)

RECURSIVE SumN(_)
SumN(rows) == IF rows = <<>> THEN 0 ELSE Head(rows).n + SumN(Tail(rows))

TickerRows(rows, ticker) == SelectSeq(rows, LAMBDA r: r.ticker = ticker)

\* The hour-bucketed key f"{ticker}:{now:%Y-%m-%d-%H}".
AlertKey(ticker, t) == <<ticker, t \div HourMinutes>>

\* AlertManager._is_duplicate
is_duplicate(rows, recent, ticker, t) ==
    \/ AlertKey(ticker, t) \in recent
    \/ LET found == get_recent_alerts(rows, DedupQueryLimit, t - deduplication_window)
       IN \E i \in 1..Len(found) :
             /\ found[i].ticker = ticker
             /\ (t - found[i].created_at) < deduplication_window

\* _is_rate_limited with the count compared by > instead of >=.
is_rate_limited_above_max(rows, ticker, t) ==
    LET found == get_recent_alerts(rows, RateQueryLimit, t - HourMinutes)
        ticker_alerts == TickerRows(found, ticker)
    IN \/ SumN(ticker_alerts) > max_alerts_per_hour
       \/ /\ ticker_alerts # <<>>
          /\ (t - ticker_alerts[1].created_at) < cooldown_period

\* AlertManager._is_rate_limited
is_rate_limited(rows, ticker, t) ==
    LET found == get_recent_alerts(rows, RateQueryLimit, t - HourMinutes)
        ticker_alerts == TickerRows(found, ticker)
    IN \/ SumN(ticker_alerts) >= max_alerts_per_hour
       \/ /\ ticker_alerts # <<>>
          /\ (t - ticker_alerts[1].created_at) < cooldown_period

\* The comparison k > cutoff of _track_alert compares the whole key
\* "TICKER:yyyy-mm-dd-HH" with the string "yyyy-mm-dd-HH": a key whose ticker
\* starts with a letter sorts after every cutoff, which starts with a digit.
KeyAfterCutoff(k, cutoffBucket) == k[1] \in Tickers \cup {OtherTicker, PollOnlyTicker}

\* AlertManager._track_alert
track_alert(recent, ticker, t) ==
    LET added == recent \cup {AlertKey(ticker, t)}
    IN IF Cardinality(added) > RecentPruneThreshold
       THEN {k \in added : KeyAfterCutoff(k, (t - deduplication_window) \div HourMinutes)}
       ELSE added

\* sql_client.insert_alert: one row, created_at DEFAULT NOW().
insert_alert(rows, ticker, t, n, via) ==
    Append(rows, [ticker |-> ticker, created_at |-> t, n |-> n, via |-> via])

\* -------------------------------------------------------------- the state
\* A call in flight: where it is, and what it has done so far.
IdleCall == [pc |-> "idle", ticker |-> "", entry |-> "none", qualifies |-> "unknown",
             scored |-> FALSE, stored |-> FALSE, tracked |-> FALSE]

\* What the step just taken returned to a caller, if it returned: the entry
\* point of the call, what it returned and what the call did.
NoReturn == [entry |-> "none", ticker |-> "", outcome |-> "none", qualifies |-> "unknown",
             scored |-> FALSE, stored |-> FALSE, tracked |-> FALSE]

Returned(rec, outcome) ==
    [entry |-> rec.entry, ticker |-> rec.ticker, outcome |-> outcome,
     qualifies |-> rec.qualifies, scored |-> rec.scored, stored |-> rec.stored, tracked |-> rec.tracked]

InitAlert ==
    /\ now = 0
    /\ db = <<>>
    /\ recent_alerts = {}
    /\ call = [c \in Callers |-> IdleCall]
    /\ last = NoReturn
    /\ max_concurrent_scoring \in {1, 2}
    /\ sem = max_concurrent_scoring

\* The end of a call: the result is returned, and the caller of
\* check_and_create_alert leaves its `async with self._scoring_semaphore`.
Finish(c, rec, outcome) ==
    /\ call' = [call EXCEPT ![c] = IdleCall]
    /\ last' = Returned(rec, outcome)
    /\ sem' = IF c \in GateCallers THEN sem + 1 ELSE sem

\* The entry into scoring without the semaphore.
EnterScoringUnbounded(c, ticker) ==
    /\ call' = [call EXCEPT ![c] =
                  [IdleCall EXCEPT !.pc = "dedup", !.ticker = ticker, !.entry = "check"]]
    /\ sem' = sem - 1

\* main.py lines 164-165 and 269-270: the caller enters `async with
\* self._scoring_semaphore` for its call of check_and_create_alert, and waits
\* there when the semaphore has no permit left.
EnterScoring(c, ticker) ==
    /\ call' = [call EXCEPT ![c] =
                  [IdleCall EXCEPT !.pc = IF sem > 0 THEN "dedup" ELSE "wait_sem",
                                   !.ticker = ticker,
                                   !.entry = "check"]]
    /\ sem' = IF sem > 0 THEN sem - 1 ELSE sem

\* main.py _handle_market_data (stream) and _poll_rest_api (poller): a ticker
\* that passed the caller's filters is scored under the scoring semaphore.
BeginCheck(c, raw) ==
    /\ call[c].pc = "idle"
    /\ EnterScoring(c, normalize_ticker(raw))
    /\ last' = NoReturn
    /\ UNCHANGED <<now, db, recent_alerts, max_concurrent_scoring>>
    /\ UNCHANGED <<wsVars, orchVars, scoreVars, techVars, lifeVars, volVars, otherVars>>

\* A waiter of the semaphore gives up instead of being woken.
AcquireSemaphoreDropping(c) ==
    /\ call[c].pc = "wait_sem"
    /\ call' = [call EXCEPT ![c] = IdleCall]
    /\ last' = NoReturn
    /\ UNCHANGED <<now, db, recent_alerts, sem, max_concurrent_scoring>>
    /\ UNCHANGED <<wsVars, orchVars, scoreVars, techVars, lifeVars, volVars, otherVars>>

\* A waiter of the semaphore is woken.
AcquireSemaphore(c) ==
    /\ call[c].pc = "wait_sem"
    /\ sem > 0
    /\ sem' = sem - 1
    /\ call' = [call EXCEPT ![c].pc = "dedup"]
    /\ last' = NoReturn
    /\ UNCHANGED <<now, db, recent_alerts, max_concurrent_scoring>>
    /\ UNCHANGED <<wsVars, orchVars, scoreVars, techVars, lifeVars, volVars, otherVars>>

\* The deduplication check recording the hour-bucket key before it decides.
DedupCheckRecordingKey(c) ==
    /\ call[c].pc = "dedup"
    /\ recent_alerts' = track_alert(recent_alerts, call[c].ticker, now)
    /\ IF is_duplicate(db, recent_alerts, call[c].ticker, now)
       THEN Finish(c, call[c], "duplicate")
       ELSE call' = [call EXCEPT ![c].pc = "rate"] /\ UNCHANGED sem /\ last' = NoReturn
    /\ UNCHANGED <<now, db, max_concurrent_scoring>>
    /\ UNCHANGED <<wsVars, orchVars, scoreVars, techVars, lifeVars, volVars, otherVars>>

\* check_and_create_alert, lines 55-58.
DedupCheck(c) ==
    /\ call[c].pc = "dedup"
    /\ storage = "open"
    /\ IF is_duplicate(db, recent_alerts, call[c].ticker, now)
       THEN Finish(c, call[c], "duplicate")
       ELSE call' = [call EXCEPT ![c].pc = "rate"] /\ UNCHANGED sem /\ last' = NoReturn
    /\ UNCHANGED <<now, db, recent_alerts, max_concurrent_scoring>>
    /\ UNCHANGED <<wsVars, orchVars, scoreVars, techVars, lifeVars, volVars, otherVars>>

\* check_and_create_alert, lines 60-63.
RateCheck(c) ==
    /\ call[c].pc = "rate"
    /\ storage = "open"
    /\ IF is_rate_limited(db, call[c].ticker, now)
       THEN Finish(c, call[c], "rate_limited")
       ELSE call' = [call EXCEPT ![c].pc = "score"] /\ UNCHANGED sem /\ last' = NoReturn
    /\ UNCHANGED <<now, db, recent_alerts, max_concurrent_scoring>>
    /\ UNCHANGED <<wsVars, orchVars, scoreVars, techVars, lifeVars, volVars, otherVars>>

\* check_and_create_alert, lines 66-71 and 81-83: the scorer answers
\* qualifies or not, or raises.
Score(c) ==
    /\ call[c].pc = "score"
    /\ \E result \in {"qualifies", "not_qualified", "error"} :
          IF result = "qualifies"
          THEN /\ call' = [call EXCEPT ![c].pc = "insert", ![c].scored = TRUE,
                                        ![c].qualifies = "yes"]
               /\ UNCHANGED sem /\ last' = NoReturn
          ELSE Finish(c, [call[c] EXCEPT !.scored = TRUE,
                                         !.qualifies = IF result = "error" THEN "unknown"
                                                       ELSE "no"], result)
    /\ UNCHANGED <<now, db, recent_alerts, max_concurrent_scoring>>
    /\ UNCHANGED <<wsVars, orchVars, scoreVars, techVars, lifeVars, volVars, otherVars>>

\* create_alert_from_score applying the deduplication check of the gate.
CreateFromScoreDeduplicated(raw, qualifies) ==
    LET rec == [IdleCall EXCEPT !.ticker = normalize_ticker(raw),
                                !.entry = "from_score",
                                !.qualifies = IF qualifies THEN "yes" ELSE "no"] IN
    /\ call["manual"].pc = "idle"
    /\ IF ~qualifies
       THEN Finish("manual", rec, "not_qualified")
       ELSE IF is_duplicate(db, recent_alerts, rec.ticker, now)
            THEN Finish("manual", rec, "duplicate")
            ELSE /\ call' = [call EXCEPT !["manual"] = [rec EXCEPT !.pc = "insert"]]
                 /\ UNCHANGED sem /\ last' = NoReturn
    /\ UNCHANGED <<now, db, recent_alerts, max_concurrent_scoring>>
    /\ UNCHANGED <<wsVars, orchVars, scoreVars, techVars, lifeVars, volVars, otherVars>>

\* create_alert_from_score, lines 89-91: the qualification check of the
\* supplied score result.
CreateFromScore(raw, qualifies) ==
    LET rec == [IdleCall EXCEPT !.ticker = normalize_ticker(raw),
                                !.entry = "from_score",
                                !.qualifies = IF qualifies THEN "yes" ELSE "no"] IN
    /\ call["manual"].pc = "idle"
    /\ IF qualifies
       THEN /\ call' = [call EXCEPT !["manual"] = [rec EXCEPT !.pc = "insert"]]
            /\ UNCHANGED sem /\ last' = NoReturn
       ELSE Finish("manual", rec, "not_qualified")
    /\ UNCHANGED <<now, db, recent_alerts, max_concurrent_scoring>>
    /\ UNCHANGED <<wsVars, orchVars, scoreVars, techVars, lifeVars, volVars, otherVars>>

\* _create_alert with the hour-bucket key recorded before the insert.
CreateAlertUpToTrackingFirst(c, maxRows) ==
    /\ call[c].pc = "insert"
    /\ recent_alerts' = track_alert(recent_alerts, call[c].ticker, now)
    /\ \/ /\ Len(db) < maxRows
          /\ storage = "open"
          /\ db' = insert_alert(db, call[c].ticker, now, 1, call[c].entry)
          /\ call' = [call EXCEPT ![c].pc = "track", ![c].stored = TRUE]
          /\ UNCHANGED sem /\ last' = NoReturn
       \/ /\ db' = db
          /\ Finish(c, call[c], "error")
    /\ UNCHANGED <<now, max_concurrent_scoring>>
    /\ UNCHANGED <<wsVars, orchVars, scoreVars, techVars, lifeVars, volVars, otherVars>>

\* _create_alert: the insert succeeds, or raises and the caller returns None;
\* it raises when the pool is closed.
CreateAlertUpTo(c, maxRows) ==
    /\ call[c].pc = "insert"
    /\ \/ /\ Len(db) < maxRows
          /\ storage = "open"
          /\ db' = insert_alert(db, call[c].ticker, now, 1, call[c].entry)
          /\ call' = [call EXCEPT ![c].pc = "track", ![c].stored = TRUE]
          /\ UNCHANGED sem /\ last' = NoReturn
       \/ /\ db' = db
          /\ Finish(c, call[c], "error")
    /\ UNCHANGED <<now, recent_alerts, max_concurrent_scoring>>
    /\ UNCHANGED <<wsVars, orchVars, scoreVars, techVars, lifeVars, volVars, otherVars>>

CreateAlert(c) == CreateAlertUpTo(c, MaxRows)

\* The task main.py creates at lines 167-168 and 272-273 for the alert the
\* call c has returned.
PushTask(c) == [ticker |-> call[c].ticker, by |-> c, created_at |-> now]

\* The push tasks once the call c has returned its alert: the stream
\* handler and the poller create a task for it, the webhook's endpoint none.
PushTasks(c) ==
    IF c \in GateCallers /\ call[c].pc = "track" THEN pushes \cup {PushTask(c)}
    ELSE pushes

\* _track_alert, then the alert is returned, and the caller in main.py
\* creates the task that pushes it to the dashboard.
TrackAlert(c) ==
    /\ call[c].pc = "track"
    /\ recent_alerts' = track_alert(recent_alerts, call[c].ticker, now)
    /\ Finish(c, [call[c] EXCEPT !.tracked = TRUE], "alert")
    /\ pushes' = PushTasks(c)
    /\ UNCHANGED <<now, db, max_concurrent_scoring>>
    /\ UNCHANGED <<storage, pushLast>>
    /\ UNCHANGED <<wsVars, orchVars, scoreVars, techVars, volVars, otherVars>>

\* Another writer of the alerts table (another process) stores n alerts.
OtherWriterUpTo(batch, maxRows) ==
    /\ Len(db) < maxRows
    /\ db' = insert_alert(db, batch[1], now, batch[2], "other")
    /\ last' = NoReturn
    /\ UNCHANGED <<now, recent_alerts, call, sem, max_concurrent_scoring>>
    /\ UNCHANGED <<wsVars, orchVars, scoreVars, techVars, lifeVars, volVars, otherVars>>

OtherWriter(batch) == OtherWriterUpTo(batch, MaxRows)

Tick ==
    /\ now + TickMinutes <= MaxTime
    /\ now' = now + TickMinutes
    /\ last' = NoReturn
    /\ UNCHANGED <<db, recent_alerts, call, sem, max_concurrent_scoring>>
    /\ UNCHANGED <<wsVars, orchVars, scoreVars, techVars, lifeVars, volVars, otherVars>>

\* ------------------------------------------------------ the stream listener
\* WebSocketHandler: the state of one handler object and of the one task
\* that runs listen().  A connection handle is "none" (self.websocket is
\* None), "open", or "closed" (the handle is set and the connection behind it
\* has been closed, by the server or by disconnect()).

\* listen, lines 174-175.
initial_backoff == 5
max_backoff == 120
\* listen, line 193: the next delay.
NextBackoff(b) == IF b * 2 < max_backoff THEN b * 2 ELSE max_backoff

NoEvent == [ev |-> "none", sent |-> "none"]
Event(ev, sent) == [ev |-> ev, sent |-> sent]

\* The handler object after __init__, lines 18-26, and no listen task yet.
\* No sleep yet.
NoDelay == [delay |-> 0, after_subscribe |-> FALSE]

InitStream ==
    /\ running = FALSE
    /\ websocket = "none"
    /\ subscribed_tickers = {}
    /\ message_handlers = <<>>
    /\ reconnect_backoff = initial_backoff
    /\ wspc = "constructed"
    /\ sleeping = 0
    /\ frame = 0
    /\ hidx = 0
    /\ invoked = <<>>
    /\ failStreak = 0
    /\ fresh = FALSE
    /\ wsLast = NoEvent
    /\ delays = <<NoDelay, NoDelay>>
    /\ ts_pool = "none"
    /\ leaked_pools = 0

\* SQLClient.connect, lines 19-38, called at line 30 of the handler's
\* connect: create_pool raises (opened = FALSE), or a new pool is created
\* and assigned to self.pool; the pool self.pool held before is not closed.
\* leaked_pools stays at MaxLeaked from MaxLeaked on.
TsConnect(opened) ==
    IF opened
    THEN /\ ts_pool' = "open"
         /\ leaked_pools' = IF ts_pool = "open" /\ leaked_pools < MaxLeaked
                            THEN leaked_pools + 1
                            ELSE leaked_pools
    ELSE UNCHANGED <<ts_pool, leaked_pools>>

\* listen, lines 177-182: where the task goes from the head of the outer
\* loop, by `while self.running`, `if not self.websocket`.
LoopHead(r, w) ==
    IF ~r THEN "returned"
    ELSE IF w = "none" THEN "connect" ELSE "subscribe"

\* listen, line 202 over line 177: where the task goes from the head of the
\* inner loop, by `while self.running and self.websocket`.
InnerHead(r, w) == IF r /\ w # "none" THEN "recv" ELSE LoopHead(r, w)

\* listen, lines 191-192, 223-224, 232-233 (clear = TRUE) and 197 (clear =
\* FALSE): the handler of a failure up to its sleep.
FailAndSleep(clear, ev, sent) ==
    /\ failStreak < MaxFailStreak
    /\ websocket' = IF clear THEN "none" ELSE websocket
    /\ sleeping' = reconnect_backoff
    /\ delays' = <<delays[2], [delay |-> reconnect_backoff,
                               after_subscribe |-> ev = "recv_closed" /\ fresh /\ running]>>
    /\ wspc' = "sleep"
    /\ failStreak' = failStreak + 1
    /\ wsLast' = Event(ev, sent)
    /\ frame' = 0 /\ hidx' = 0 /\ invoked' = <<>>
    /\ UNCHANGED <<running, subscribed_tickers, message_handlers, reconnect_backoff, fresh>>

\* main.py start, lines 68-84: connect, subscribe, register the market-data
\* handler and create the listen task; a failing connect raises out of start.
Start(ok) ==
    /\ wspc = "constructed"
    /\ IF ok
       THEN /\ running' = TRUE
            /\ websocket' = "open"
            /\ subscribed_tickers' = Tickers
            /\ message_handlers' = Append(message_handlers, Len(message_handlers) + 1)
            /\ wspc' = "created"
       ELSE /\ wspc' = "start_failed"
            /\ UNCHANGED <<running, websocket, subscribed_tickers, message_handlers>>
    /\ \E opened \in BOOLEAN : (ok => opened) /\ TsConnect(opened)
    /\ wsLast' = NoEvent
    /\ UNCHANGED <<reconnect_backoff, sleeping, delays, frame, hidx, invoked, failStreak, fresh>>
    /\ UNCHANGED <<alertVars, orchVars, scoreVars, techVars, lifeVars, volVars, otherVars>>

\* listen, lines 174-177: the task starts.
ListenBegin ==
    /\ wspc = "created"
    /\ reconnect_backoff' = initial_backoff
    /\ wspc' = LoopHead(running, websocket)
    /\ wsLast' = NoEvent
    /\ UNCHANGED <<running, websocket, subscribed_tickers, message_handlers, sleeping, delays, ts_pool, leaked_pools,
                   frame, hidx, invoked, failStreak, fresh>>
    /\ UNCHANGED <<alertVars, orchVars, scoreVars, techVars, lifeVars, volVars, otherVars>>

\* connect, lines 30-38, called at line 180: the pool and the socket open, or
\* one of them raises (caught at line 195, the handle still None).
ConnectOpen(ok) ==
    /\ wspc = "connect"
    /\ IF ok
       THEN /\ websocket' = "open"
            /\ wspc' = "auth"
            /\ wsLast' = NoEvent
            /\ TsConnect(TRUE)
            /\ UNCHANGED <<running, subscribed_tickers, message_handlers, reconnect_backoff,
                           sleeping, delays, frame, hidx, invoked, failStreak, fresh>>
       ELSE /\ FailAndSleep(FALSE, "connect_failed", "none")
            /\ \E opened \in BOOLEAN : TsConnect(opened)
    /\ UNCHANGED <<alertVars, orchVars, scoreVars, techVars, lifeVars, volVars, otherVars>>

\* connect, lines 41-49: the auth message is sent and the answer read; on a
\* closed connection either raises ConnectionClosed (caught at line 184).
ConnectAuth ==
    /\ wspc = "auth"
    /\ IF websocket = "open"
       THEN /\ running' = TRUE
            /\ wspc' = "subscribe"
            /\ wsLast' = Event("authenticated", "auth")
            /\ UNCHANGED <<websocket, subscribed_tickers, message_handlers, reconnect_backoff,
                           sleeping, delays, ts_pool, leaked_pools, frame, hidx, invoked, failStreak, fresh>>
       ELSE FailAndSleep(TRUE, "auth_closed", "none") /\ UNCHANGED <<ts_pool, leaked_pools>>
    /\ UNCHANGED <<alertVars, orchVars, scoreVars, techVars, lifeVars, volVars, otherVars>>

\* The subscribe step without the reset of line 183.
SubscribeKeepingBackoff(sendOk) ==
    /\ wspc = "subscribe"
    /\ IF subscribed_tickers = {} \/ (websocket = "open" /\ sendOk)
       THEN /\ failStreak' = 0
            /\ fresh' = (subscribed_tickers # {})
            /\ wspc' = InnerHead(running, websocket)
            /\ wsLast' = Event("cycle_ok", IF subscribed_tickers = {} THEN "none" ELSE "subscribe")
            /\ UNCHANGED <<running, websocket, subscribed_tickers, message_handlers,
                           reconnect_backoff, sleeping, delays, ts_pool, leaked_pools, frame, hidx, invoked>>
       ELSE FailAndSleep(TRUE, "subscribe_failed", "none") /\ UNCHANGED <<ts_pool, leaked_pools>>
    /\ UNCHANGED <<alertVars, orchVars, scoreVars, techVars, lifeVars, volVars, otherVars>>

\* listen, lines 181-183 with subscribe, lines 59-83: the subscribe message
\* is sent (sendOk) and the backoff reset, or the send raises
\* ConnectionClosed (caught at line 184).
Subscribe(sendOk) ==
    /\ wspc = "subscribe"
    /\ IF subscribed_tickers = {} \/ (websocket = "open" /\ sendOk)
       THEN /\ reconnect_backoff' = initial_backoff
            /\ failStreak' = 0
            /\ fresh' = (subscribed_tickers # {})
            /\ wspc' = InnerHead(running, websocket)
            /\ wsLast' = Event("cycle_ok", IF subscribed_tickers = {} THEN "none" ELSE "subscribe")
            /\ UNCHANGED <<running, websocket, subscribed_tickers, message_handlers,
                           sleeping, delays, ts_pool, leaked_pools, frame, hidx, invoked>>
       ELSE FailAndSleep(TRUE, "subscribe_failed", "none") /\ UNCHANGED <<ts_pool, leaked_pools>>
    /\ UNCHANGED <<alertVars, orchVars, scoreVars, techVars, lifeVars, volVars, otherVars>>

\* The close handler without line 223: the handle is kept.
RecvClosedKeepingHandle ==
    /\ wspc = "recv"
    /\ websocket = "closed"
    /\ FailAndSleep(FALSE, "recv_closed", "none") /\ UNCHANGED <<ts_pool, leaked_pools>>
    /\ UNCHANGED <<alertVars, orchVars, scoreVars, techVars, lifeVars, volVars, otherVars>>

\* listen, lines 204-207 and 217-226: recv raises ConnectionClosed.
RecvClosed ==
    /\ wspc = "recv"
    /\ websocket = "closed"
    /\ FailAndSleep(TRUE, "recv_closed", "none") /\ UNCHANGED <<ts_pool, leaked_pools>>
    /\ UNCHANGED <<alertVars, orchVars, scoreVars, techVars, lifeVars, volVars, otherVars>>

\* A read timeout treated as a lost connection.
RecvTimeoutReconnecting(sendOk) ==
    /\ wspc = "recv"
    /\ websocket = "open"
    /\ FailAndSleep(TRUE, "timeout", IF sendOk THEN "heartbeat" ELSE "heartbeat_failed") /\ UNCHANGED <<ts_pool, leaked_pools>>
    /\ UNCHANGED <<alertVars, orchVars, scoreVars, techVars, lifeVars, volVars, otherVars>>

\* listen, lines 214-216: the read timed out and the heartbeat is sent on
\* the same handle (sendOk), or its send raises ConnectionClosed, which
\* leaves the inner try and is caught at line 230.
RecvTimeout(sendOk) ==
    /\ wspc = "recv"
    /\ websocket = "open"
    /\ IF sendOk
       THEN /\ wspc' = InnerHead(running, websocket)
            /\ fresh' = FALSE
            /\ wsLast' = Event("timeout", "heartbeat")
            /\ UNCHANGED <<running, websocket, subscribed_tickers, message_handlers,
                           reconnect_backoff, sleeping, delays, ts_pool, leaked_pools, frame, hidx, invoked, failStreak>>
       ELSE FailAndSleep(TRUE, "timeout", "heartbeat_failed") /\ UNCHANGED <<ts_pool, leaked_pools>>
    /\ UNCHANGED <<alertVars, orchVars, scoreVars, techVars, lifeVars, volVars, otherVars>>

\* listen, lines 208 and 227-229: the frame is not JSON.
RecvBadFrame ==
    /\ wspc = "recv"
    /\ websocket = "open"
    /\ wspc' = InnerHead(running, websocket)
    /\ fresh' = FALSE
    /\ wsLast' = Event("bad_frame", "none")
    /\ UNCHANGED <<running, websocket, subscribed_tickers, message_handlers,
                   reconnect_backoff, sleeping, delays, ts_pool, leaked_pools, frame, hidx, invoked, failStreak>>
    /\ UNCHANGED <<alertVars, orchVars, scoreVars, techVars, lifeVars, volVars, otherVars>>

\* listen, lines 204-213: a frame of n events is read.
RecvFrame(n) ==
    /\ wspc = "recv"
    /\ websocket = "open"
    /\ frame' = n
    /\ wspc' = "process"
    /\ fresh' = FALSE
    /\ wsLast' = Event("frame", "none")
    /\ UNCHANGED <<running, websocket, subscribed_tickers, message_handlers,
                   reconnect_backoff, sleeping, delays, ts_pool, leaked_pools, hidx, invoked, failStreak>>
    /\ UNCHANGED <<alertVars, orchVars, scoreVars, techVars, lifeVars, volVars, otherVars>>

\* listen, lines 210-213 and 202: one event of the frame is done.
MessageDone(ev) ==
    /\ frame' = frame - 1
    /\ hidx' = 0
    /\ invoked' = <<>>
    /\ wspc' = IF frame > 1 THEN "process" ELSE InnerHead(running, websocket)
    /\ wsLast' = Event(ev, "none")
    /\ UNCHANGED <<running, websocket, subscribed_tickers, message_handlers,
                   reconnect_backoff, sleeping, delays, ts_pool, leaked_pools, failStreak, fresh>>

\* _process_message, lines 120-126 and 135-136: the event is stored when it
\* is an aggregate; a failing store ends the event at the outer except.
ProcessMessage(ev, stored) ==
    /\ wspc = "process"
    /\ IF ev = "A" /\ ~stored
       THEN MessageDone("store_failed")
       ELSE /\ wspc' = "handlers"
            /\ hidx' = 1
            /\ invoked' = <<>>
            /\ wsLast' = NoEvent
            /\ UNCHANGED <<running, websocket, subscribed_tickers, message_handlers,
                           reconnect_backoff, sleeping, delays, ts_pool, leaked_pools, frame, failStreak, fresh>>
    /\ UNCHANGED <<alertVars, orchVars, scoreVars, techVars, lifeVars, volVars, otherVars>>

\* The handler loop without the try of lines 130-133: an exception of a
\* handler ends the event at the outer except.
InvokeHandlerPropagating(raises) ==
    /\ wspc = "handlers"
    /\ hidx <= Len(message_handlers)
    /\ IF raises
       THEN MessageDone("handler_raised")
       ELSE /\ invoked' = Append(invoked, [h |-> message_handlers[hidx], raised |-> raises])
            /\ hidx' = hidx + 1
            /\ wsLast' = Event("handler_ok", "none")
            /\ UNCHANGED <<running, websocket, subscribed_tickers, message_handlers,
                           reconnect_backoff, wspc, sleeping, delays, ts_pool, leaked_pools, frame, failStreak, fresh>>
    /\ UNCHANGED <<alertVars, orchVars, scoreVars, techVars, lifeVars, volVars, otherVars>>

\* _process_message, lines 129-133: the next handler of the list is awaited;
\* what it raises is logged.
InvokeHandler(raises) ==
    /\ wspc = "handlers"
    /\ hidx <= Len(message_handlers)
    /\ invoked' = Append(invoked, [h |-> message_handlers[hidx], raised |-> raises])
    /\ hidx' = hidx + 1
    /\ wsLast' = Event(IF raises THEN "handler_raised" ELSE "handler_ok", "none")
    /\ UNCHANGED <<running, websocket, subscribed_tickers, message_handlers,
                   reconnect_backoff, wspc, sleeping, delays, ts_pool, leaked_pools, frame, failStreak, fresh>>
    /\ UNCHANGED <<alertVars, orchVars, scoreVars, techVars, lifeVars, volVars, otherVars>>

\* _process_message, line 129: the list is exhausted.
HandlersDone ==
    /\ wspc = "handlers"
    /\ hidx > Len(message_handlers)
    /\ MessageDone("dispatched")
    /\ UNCHANGED <<alertVars, orchVars, scoreVars, techVars, lifeVars, volVars, otherVars>>

\* The end of the sleep with a delay doubled without a ceiling.
WakeUncapped ==
    /\ wspc = "sleep"
    /\ reconnect_backoff' = reconnect_backoff * 2
    /\ sleeping' = 0
    /\ UNCHANGED <<delays, ts_pool, leaked_pools>>
    /\ wspc' = LoopHead(running, websocket)
    /\ wsLast' = Event("wake", "none")
    /\ UNCHANGED <<running, websocket, subscribed_tickers, message_handlers,
                   frame, hidx, invoked, failStreak, fresh>>
    /\ UNCHANGED <<alertVars, orchVars, scoreVars, techVars, lifeVars, volVars, otherVars>>

\* listen, lines 192-194, 197-199, 224-226, 233-234: the sleep ends, the
\* delay doubles up to max_backoff and the outer loop is entered again.
Wake ==
    /\ wspc = "sleep"
    /\ reconnect_backoff' = NextBackoff(reconnect_backoff)
    /\ sleeping' = 0
    /\ UNCHANGED <<delays, ts_pool, leaked_pools>>
    /\ wspc' = LoopHead(running, websocket)
    /\ wsLast' = Event("wake", "none")
    /\ UNCHANGED <<running, websocket, subscribed_tickers, message_handlers,
                   frame, hidx, invoked, failStreak, fresh>>
    /\ UNCHANGED <<alertVars, orchVars, scoreVars, techVars, lifeVars, volVars, otherVars>>

\* disconnect, lines 51-57, with SQLClient.disconnect, lines 40-44: the
\* pool self.pool holds is closed.
Disconnect ==
    /\ wspc \notin {"constructed", "start_failed"}
    /\ running \/ websocket = "open"
    /\ running' = FALSE
    /\ websocket' = IF websocket = "open" THEN "closed" ELSE websocket
    /\ ts_pool' = IF ts_pool = "open" THEN "closed" ELSE ts_pool
    /\ wsLast' = NoEvent
    /\ UNCHANGED <<subscribed_tickers, message_handlers, reconnect_backoff, wspc, sleeping,
                   delays, leaked_pools, frame, hidx, invoked, failStreak, fresh>>
    /\ UNCHANGED <<alertVars, orchVars, scoreVars, techVars, lifeVars, volVars, otherVars>>

\* The server closes the connection.
ServerClose ==
    /\ websocket = "open"
    /\ websocket' = "closed"
    /\ wsLast' = NoEvent
    /\ UNCHANGED <<running, subscribed_tickers, message_handlers, reconnect_backoff, wspc,
                   sleeping, delays, ts_pool, leaked_pools, frame, hidx, invoked, failStreak, fresh>>
    /\ UNCHANGED <<alertVars, orchVars, scoreVars, techVars, lifeVars, volVars, otherVars>>

\* register_handler, lines 106-112.
RegisterHandler ==
    /\ wspc \notin {"constructed", "start_failed"}
    /\ Len(message_handlers) < MaxHandlers
    /\ message_handlers' = Append(message_handlers, Len(message_handlers) + 1)
    /\ wsLast' = NoEvent
    /\ UNCHANGED <<running, websocket, subscribed_tickers, reconnect_backoff, wspc, sleeping, delays, ts_pool, leaked_pools,
                   frame, hidx, invoked, failStreak, fresh>>
    /\ UNCHANGED <<alertVars, orchVars, scoreVars, techVars, lifeVars, volVars, otherVars>>

\* unsubscribe, lines 85-95, of every subscribed ticker.
Unsubscribe ==
    /\ subscribed_tickers # {}
    /\ subscribed_tickers' = {}
    /\ wsLast' = NoEvent
    /\ UNCHANGED <<running, websocket, message_handlers, reconnect_backoff, wspc, sleeping, delays, ts_pool, leaked_pools,
                   frame, hidx, invoked, failStreak, fresh>>
    /\ UNCHANGED <<alertVars, orchVars, scoreVars, techVars, lifeVars, volVars, otherVars>>

\* The steps of the listen task.
ListenNext ==
    \/ ListenBegin
    \/ \E ok \in BOOLEAN : ConnectOpen(ok)
    \/ ConnectAuth
    \/ \E sendOk \in BOOLEAN : Subscribe(sendOk)
    \/ RecvClosed
    \/ \E sendOk \in BOOLEAN : RecvTimeout(sendOk)
    \/ RecvBadFrame
    \/ \E n \in 1..MaxFrame : RecvFrame(n)
    \/ \E ev \in EventTypes, stored \in BOOLEAN : ProcessMessage(ev, stored)
    \/ \E raises \in BOOLEAN : InvokeHandler(raises)
    \/ HandlersDone
    \/ Wake

\* ... and of what runs beside it.
StreamEnvNext ==
    \/ \E ok \in BOOLEAN : Start(ok)
    \/ Disconnect
    \/ ServerClose
    \/ RegisterHandler
    \/ Unsubscribe

\* ---------------------------------------------------------------- the scorer

\* catalyst_weights of analyze_catalyst_strength, in hundredths.
catalyst_weights ==
    [biotech_phase3 |-> 100, buyout_merger |-> 95, partnership |-> 80,
     funding |-> 70, short_squeeze |-> 85, other |-> 50]

RECURSIVE SumValues(_, _)
\* sum(d.values()) of a dict d restricted to the keys in keys.
SumValues(d, keys) ==
    IF keys = {} THEN 0
    ELSE LET k == CHOOSE k \in keys : TRUE
         IN  d[k] + SumValues(d, keys \ {k})

\* max_possible of analyze_catalyst_strength: the sum of the weights, in
\* hundredths (4.80).
max_possible == SumValues(catalyst_weights, DOMAIN catalyst_weights)

\* Scores are fixed-point numbers: one score point is Point units, the least
\* unit in which both a hundredth of a point (the fundamental score) and
\* 1/max_possible of a point (the catalyst score) are whole.
Point == 5 * max_possible

\* A weight is held in hundredths, so a weighted sum of scores, and the total
\* score, is held in units of 1/TotalPoint of a point.
TotalPoint == 100 * Point

Min(a, b) == IF a <= b THEN a ELSE b
Max(a, b) == IF a >= b THEN a ELSE b
Abs(a) == IF a < 0 THEN 0 - a ELSE a

\* The scoring_weights configuration with every key absent: the defaults of
\* SwingScoreCalculator. Weights in hundredths, the rest in points.
DefaultConfig ==
    [weights    |-> [volume_technical |-> 30, catalyst |-> 35,
                     short_squeeze |-> 15, fundamental |-> 20],
     thresholds |-> [min_total_score |-> 75, min_volume_technical_score |-> 20,
                     min_catalyst_score |-> 25, min_fundamental_score |-> 12],
     penalties  |-> [recent_dilution |-> -15, upcoming_rs |-> -20,
                     negative_cash_flow |-> -10],
     bonuses    |-> [exceptional_volume |-> 5, multiple_catalysts |-> 3,
                     strong_sentiment |-> 3, pump_potential |-> 8]]

\* A scoring_weights.yaml that overrides the defaults: weights that do not
\* sum to one, a penalty written as a magnitude, a lower total floor.
TunedConfig ==
    [weights    |-> [volume_technical |-> 40, catalyst |-> 40,
                     short_squeeze |-> 20, fundamental |-> 20],
     thresholds |-> [min_total_score |-> 60, min_volume_technical_score |-> 20,
                     min_catalyst_score |-> 25, min_fundamental_score |-> 12],
     penalties  |-> [recent_dilution |-> 12, upcoming_rs |-> -20,
                     negative_cash_flow |-> -10],
     bonuses    |-> [exceptional_volume |-> 5, multiple_catalysts |-> 3,
                     strong_sentiment |-> 3, pump_potential |-> 8]]

Configs == {DefaultConfig, TunedConfig}

\* An Optional[int] is a sequence of at most one number; <<>> is None.
None == <<>>

\* `if current_volume:` is false for None and for 0.
Truthy(opt) == opt # None /\ opt[1] # 0

\* The current_volume argument of calculate_score.
CurrentVolumes == {None, <<100>>}

\* What get_current_price answers: the query fails, no row, or the latest row.
PriceRows ==
    {[ok |-> FALSE, found |-> FALSE, volume |-> 0],
     [ok |-> TRUE,  found |-> FALSE, volume |-> 0],
     [ok |-> TRUE,  found |-> TRUE,  volume |-> 100]}

\* What get_volume_statistics answers: the query fails, or the average volume
\* of the lookback: 0 when there is no history, or one that 100 shares are
\* 10 times of.
VolumeStats ==
    {[ok |-> FALSE, average_volume |-> 0]}
    \cup {[ok |-> TRUE, average_volume |-> a] : a \in {0, 10}}

\* What _check_sustained_volume's price-history query comes to.
SustainedAnswers == {"fail", "yes", "no"}

\* The signals of calculate_all_indicators that the scorer reads.
SignalSets ==
    {{"bullish_crossover"},
     {"bullish_crossover", "macd_bullish", "price_above_sma", "rsi_oversold"}}

\* What calculate_all_indicators comes to: its price-history query fails,
\* fewer rows than sma_long, or the signals.
TechAnswers ==
    {[status |-> "fail", signals |-> {}], [status |-> "insufficient", signals |-> {}]}
    \cup {[status |-> "ok", signals |-> s] : s \in SignalSets}

\* What detect_breakout comes to: one of its two queries fails, or its flag.
BreakoutAnswers == {"fail", "yes", "no"}

\* The kinds of article the news tool returns: sentiment in hundredths.
ArticleKinds ==
    {[catalyst_type |-> "biotech_phase3", sentiment_score |-> 100],
     [catalyst_type |-> "other", sentiment_score |-> -50]}

\* What get_recent_news_for_ticker answers: the tool fails, or no article,
\* one, or MaxArticles of a kind.
NewsAnswers ==
    {[ok |-> FALSE, articles |-> <<>>]}
    \cup {[ok |-> TRUE, articles |-> [i \in 1..n |-> k]] :
             n \in {0, 1, MaxArticles}, k \in ArticleKinds}

\* volume_spike_multiplier of VolumeAnalyzer, in tenths (2.5).
volume_multiplier == 25

\* safe_divide(numerator, denominator, 0.0) as a fraction: the default when
\* the denominator is 0, else the quotient.
safe_divide(numerator, denominator) ==
    IF denominator = 0 THEN [num |-> 0, den |-> 1]
    ELSE [num |-> numerator, den |-> denominator]

\* detect_volume_spike where only a multiplier above the threshold counts.
detect_volume_spike_above(volume, stats, sustained) ==
    IF stats.average_volume = 0
    THEN [has_spike |-> FALSE, num |-> 0, den |-> 1, is_sustained |-> FALSE,
          reason |-> "Insufficient historical data", divided |-> FALSE]
    ELSE LET multiplier == safe_divide(volume, stats.average_volume)
         IN  [has_spike |-> multiplier.num * 10 > volume_multiplier * multiplier.den,
              num |-> multiplier.num, den |-> multiplier.den,
              is_sustained |-> sustained = "yes",
              reason |-> "none", divided |-> TRUE]

\* detect_volume_spike of VolumeAnalyzer once the statistics are read: the
\* multiplier is kept as the fraction num / den; reason is "none" where the
\* answer has no reason, divided tells whether safe_divide was called.
detect_volume_spike(volume, stats, sustained) ==
    IF stats.average_volume = 0
    THEN [has_spike |-> FALSE, num |-> 0, den |-> 1, is_sustained |-> FALSE,
          reason |-> "Insufficient historical data", divided |-> FALSE]
    ELSE LET multiplier == safe_divide(volume, stats.average_volume)
         IN  [has_spike |-> multiplier.num * 10 >= volume_multiplier * multiplier.den,
              num |-> multiplier.num, den |-> multiplier.den,
              is_sustained |-> sustained = "yes",
              reason |-> "none", divided |-> TRUE]

\* No call of detect_volume_spike was made: `if current_volume:` was false.
NoSpike ==
    [has_spike |-> FALSE, num |-> 0, den |-> 1, is_sustained |-> FALSE,
     reason |-> "not called", divided |-> FALSE]

\* The volume_spike of _calculate_volume_technical_score.
VolumeSpike(volume, stats, sustained) ==
    IF Truthy(volume) THEN detect_volume_spike(volume[1], stats, sustained)
    ELSE NoSpike

\* exceptional_volume where five times the average counts as well.
ExceptionalVolumeFrom5(spiked) ==
    spiked.has_spike /\ spiked.num >= 5 * spiked.den

\* exceptional_volume of _calculate_volume_technical_score: within
\* `if volume_spike.get("has_spike")`, `if multiplier > 5.0`.
ExceptionalVolume(spiked) ==
    spiked.has_spike /\ spiked.num > 5 * spiked.den

\* The component whose failure leaves _calculate_volume_technical_score as an
\* exception, "none" when it returns.
VolumeTechnicalRaises(volume, stats, tech, breakout) ==
    IF Truthy(volume) /\ ~stats.ok THEN "volume_statistics"
    ELSE IF tech.status = "fail" THEN "price_history"
    ELSE IF tech.status = "ok" /\ breakout = "fail" THEN "price_range"
    ELSE "none"

\* _calculate_volume_technical_score when nothing raises.
_calculate_volume_technical_score(volume, stats, sustained, tech, breakout) ==
    LET spiked == VolumeSpike(volume, stats, sustained)
        spike == IF spiked.has_spike
                 THEN Min((spiked.num * 10 * 40 * Point)
                              \div (volume_multiplier * spiked.den),
                          40 * Point)
                 ELSE 0
        held == IF spiked.is_sustained THEN 20 * Point ELSE 0
        signals == IF tech.status = "ok" THEN tech.signals ELSE {}
        technical ==
            (IF "bullish_crossover" \in signals THEN 15 * Point ELSE 0)
            + (IF "macd_bullish" \in signals THEN 10 * Point ELSE 0)
            + (IF "price_above_sma" \in signals THEN 10 * Point ELSE 0)
            + (IF "rsi_oversold" \in signals THEN 5 * Point ELSE 0)
            + (IF tech.status = "ok" /\ breakout = "yes" THEN 15 * Point ELSE 0)
    IN  [score |-> Min(spike + held + technical, 100 * Point),
         factors |->
             (IF spiked.has_spike THEN {"Volume spike"} ELSE {})
             \cup (IF spiked.is_sustained THEN {"Sustained volume"} ELSE {})
             \cup (IF "bullish_crossover" \in signals
                   THEN {"Bullish SMA crossover"} ELSE {})
             \cup (IF "macd_bullish" \in signals THEN {"MACD bullish"} ELSE {})
             \cup (IF "price_above_sma" \in signals THEN {"Price above SMA"} ELSE {})
             \cup (IF "rsi_oversold" \in signals THEN {"RSI oversold"} ELSE {})
             \cup (IF tech.status = "ok" /\ breakout = "yes"
                   THEN {"Price breakout detected"} ELSE {}),
         exceptional_volume |-> ExceptionalVolume(spiked)]

RECURSIVE ArticleScores(_)
\* total_score of analyze_catalyst_strength: the sum over the articles of
\* weight * abs(sentiment_score), in units of 1/10000.
ArticleScores(articles) ==
    IF articles = <<>> THEN 0
    ELSE catalyst_weights[Head(articles).catalyst_type]
             * Abs(Head(articles).sentiment_score)
         + ArticleScores(Tail(articles))

RECURSIVE SentimentSum(_)
\* sum(c.get("sentiment_score", 0) for c in catalysts), in hundredths.
SentimentSum(catalysts) ==
    IF catalysts = <<>> THEN 0
    ELSE Head(catalysts).sentiment_score + SentimentSum(Tail(catalysts))

\* analyze_catalyst_strength of a detector that keeps the catalysts of the
\* call before and counts them again.
analyze_catalyst_strength_remembering(news) ==
    IF ~news.ok
    THEN [catalyst_score |-> 0, catalysts |-> <<>>]
    ELSE LET kept == IF history = <<>> THEN <<>>
                     ELSE history[Len(history)].catalyst_score.catalysts
             all == kept \o news.articles
         IN  [catalyst_score |-> (ArticleScores(all) * Point) \div max_possible,
              catalysts |-> all]

\* analyze_catalyst_strength of CatalystDetector.
analyze_catalyst_strength(news) ==
    IF ~news.ok
    THEN [catalyst_score |-> 0, catalysts |-> <<>>]
    ELSE [catalyst_score |-> (ArticleScores(news.articles) * Point) \div max_possible,
          catalysts |-> news.articles]

\* _calculate_catalyst_score.
_calculate_catalyst_score(news) ==
    LET catalyst_analysis == analyze_catalyst_strength(news)
        catalysts == catalyst_analysis.catalysts
    IN  [score |-> catalyst_analysis.catalyst_score,
         catalysts |-> catalysts,
         strong_sentiment |->
             catalysts # <<>> /\ SentimentSum(catalysts) > 70 * Len(catalysts)]

\* min_short_interest_pct and min_days_to_cover of ShortSqueezeDetector.
min_short_interest == 20
min_days_to_cover == 5

\* What get_short_interest answers: the tool fails, its data hold an error,
\* or the data (0 stands for a field that is absent or zero).
ShortInterestAnswers ==
    {[status |-> "fail", short_percent_float |-> 0, days_to_cover |-> 0,
      shares_short |-> 0, shares_outstanding |-> 0, average_volume |-> 0],
     [status |-> "error", short_percent_float |-> 0, days_to_cover |-> 0,
      shares_short |-> 0, shares_outstanding |-> 0, average_volume |-> 0],
     [status |-> "ok", short_percent_float |-> 14, days_to_cover |-> 4,
      shares_short |-> 3, shares_outstanding |-> 4, average_volume |-> 100],
     [status |-> "ok", short_percent_float |-> 30, days_to_cover |-> 6,
      shares_short |-> 1, shares_outstanding |-> 4, average_volume |-> 100]}

\* The component whose failure leaves detect_short_squeeze_potential as an
\* exception: its volume-statistics query is made outside any try.
ShortSqueezeRaises(short, stats) ==
    IF short.status = "ok" /\ ~stats.ok THEN "volume_statistics" ELSE "none"

\* detect_short_squeeze_potential and _calculate_short_squeeze_score when
\* nothing raises: the score is counted in hundredths and capped at 100.
_calculate_short_squeeze_score(short, stats) ==
    IF short.status # "ok" THEN [score |-> 0]
    ELSE LET interest ==
                 IF short.short_percent_float = 0 THEN 0
                 ELSE IF short.short_percent_float >= min_short_interest THEN 35
                 ELSE IF short.short_percent_float * 10 >= min_short_interest * 7 THEN 20
                 ELSE 0
             cover ==
                 IF short.days_to_cover = 0 THEN 0
                 ELSE IF short.days_to_cover >= min_days_to_cover THEN 25
                 ELSE IF short.days_to_cover * 10 >= min_days_to_cover * 7 THEN 15
                 ELSE 0
             float ==
                 IF /\ short.shares_outstanding # 0
                    /\ short.average_volume # 0
                    /\ short.shares_short * 2 < short.shares_outstanding
                 THEN 20 ELSE 0
             volume_analysis ==
                 detect_volume_spike(short.average_volume, stats, "no")
             spike == IF volume_analysis.has_spike THEN 20 ELSE 0
         IN  [score |-> Min((interest + cover + float + spike) * Point, 100 * Point)]

\* min_market_cap (dollars) and max_debt_to_equity (hundredths: 2.0) of
\* FundamentalAnalyzer.
min_market_cap == 50000000
max_debt_to_equity == 200

\* What get_financial_stability answers: the tool fails, or a
\* stability_score in hundredths.
StabilityAnswers ==
    {[status |-> "fail", stability_score |-> 0],
     [status |-> "ok", stability_score |-> 50],
     [status |-> "ok", stability_score |-> 400]}

\* What get_fundamentals answers: the tool fails (no data), a weak company
\* below the market-cap floor, or a strong one. Growth and debt-to-equity in
\* hundredths, cash and market cap in dollars.
FundamentalsAnswers ==
    {[ok |-> FALSE, total_cash |-> 0, market_cap |-> 0,
      revenue_growth |-> 0, debt_to_equity |-> 0],
     [ok |-> TRUE, total_cash |-> 1000000, market_cap |-> 40000000,
      revenue_growth |-> -20, debt_to_equity |-> 300],
     [ok |-> TRUE, total_cash |-> 20000000, market_cap |-> 100000000,
      revenue_growth |-> 20, debt_to_equity |-> 50]}

\* analyze_fundamentals and _calculate_fundamental_score: the score is
\* counted in units of 1/10000 and normalised by max(0, min(1, score)) * 100.
_calculate_fundamental_score(stability, fundamentals) ==
    IF stability.status # "ok" THEN [score |-> 0, passes_filters |-> FALSE]
    ELSE LET f == fundamentals
             cash ==
                 IF f.total_cash # 0 /\ f.market_cap # 0
                 THEN IF f.total_cash * 10 > f.market_cap THEN 2500
                      ELSE IF f.total_cash * 20 < f.market_cap THEN -1000
                      ELSE 0
                 ELSE 0
             growth ==
                 IF f.revenue_growth > 10 THEN 2000
                 ELSE IF f.revenue_growth < -10 THEN -1500
                 ELSE 0
             debt ==
                 IF f.debt_to_equity = 0 THEN 0
                 ELSE IF f.debt_to_equity > max_debt_to_equity THEN -2000
                 ELSE IF f.debt_to_equity < 100 THEN 2000
                 ELSE 0
             cap == IF f.market_cap # 0 /\ f.market_cap < min_market_cap
                    THEN -3000 ELSE 0
             score == stability.stability_score * 35 + cash + growth + debt + cap
         IN  [score |-> (Max(0, Min(10000, score)) * Point) \div 100,
              passes_filters |->
                  /\ f.market_cap = 0 \/ f.market_cap >= min_market_cap
                  /\ f.debt_to_equity = 0 \/ f.debt_to_equity <= max_debt_to_equity]

\* What the two fundamentals tools answer to detect_pump_potential.
PumpAdapterAnswers == {"fail", "ok"}

\* detect_pump_potential looks for a volume when it is given none: the
\* average volume of the short-interest data, else the latest price row.
PumpHasVolume(volume, volume_known) ==
    Truthy(volume) \/ (volume = None /\ volume_known)

\* The component whose failure leaves detect_pump_potential as an exception:
\* its detect_volume_spike call is made outside any try.
PumpRaises(adapters, volume, volume_known, stats_ok) ==
    IF adapters # "error" /\ PumpHasVolume(volume, volume_known) /\ ~stats_ok
    THEN "volume_statistics" ELSE "none"

\* detect_pump_potential when nothing raises. Without the fundamentals data
\* the volume and technical points (at most 40) stay below
\* min_score_for_flag; with them the flag is what the data make it.
detect_pump_potential(adapters, flag) ==
    [has_pump_potential |-> adapters = "ok" /\ flag]

\* What the check_dilution_risk tool answers; high_risk_score is
\* dilution_risk_score > 0.3.
DilutionAnswers ==
    {[status |-> "fail", has_recent_dilution |-> FALSE, high_risk_score |-> FALSE],
     [status |-> "ok", has_recent_dilution |-> FALSE, high_risk_score |-> FALSE],
     [status |-> "ok", has_recent_dilution |-> FALSE, high_risk_score |-> TRUE],
     [status |-> "ok", has_recent_dilution |-> TRUE, high_risk_score |-> FALSE]}

\* What the check_reverse_split tool answers.
ReverseSplitAnswers ==
    {[ok |-> FALSE, has_reverse_split |-> FALSE],
     [ok |-> TRUE, has_reverse_split |-> FALSE],
     [ok |-> TRUE, has_reverse_split |-> TRUE]}

\* check_dilution_risk flagging the ticker when its tool fails.
check_dilution_risk_failing_closed(dilution, rs) ==
    IF dilution.status # "ok"
    THEN [has_dilution_risk |-> TRUE, has_recent_dilution |-> FALSE,
          has_reverse_split |-> FALSE]
    ELSE LET has_reverse_split == rs.ok /\ rs.has_reverse_split
             risk_score ==
                 (IF dilution.has_recent_dilution THEN 5 ELSE 0)
                 + (IF dilution.high_risk_score THEN 3 ELSE 0)
                 + (IF has_reverse_split THEN 4 ELSE 0)
         IN  [has_dilution_risk |-> risk_score > 3,
              has_recent_dilution |-> dilution.has_recent_dilution,
              has_reverse_split |-> has_reverse_split]

\* check_dilution_risk of DilutionChecker: risk_score in tenths.
check_dilution_risk(dilution, rs) ==
    IF dilution.status # "ok"
    THEN [has_dilution_risk |-> FALSE, has_recent_dilution |-> FALSE,
          has_reverse_split |-> FALSE]
    ELSE LET has_reverse_split == rs.ok /\ rs.has_reverse_split
             risk_score ==
                 (IF dilution.has_recent_dilution THEN 5 ELSE 0)
                 + (IF dilution.high_risk_score THEN 3 ELSE 0)
                 + (IF has_reverse_split THEN 4 ELSE 0)
         IN  [has_dilution_risk |-> risk_score > 3,
              has_recent_dilution |-> dilution.has_recent_dilution,
              has_reverse_split |-> has_reverse_split]

\* penalties_total with the configured penalties added as they are written,
\* sign included.
penalties_total_signed(config, fundamental, dilution) ==
    (IF dilution.has_recent_dilution THEN config.penalties.recent_dilution ELSE 0)
    + (IF dilution.has_reverse_split THEN config.penalties.upcoming_rs ELSE 0)
    + (IF ~fundamental.passes_filters THEN config.penalties.negative_cash_flow ELSE 0)

\* penalties_total of calculate_score, in points.
penalties_total(config, fundamental, dilution) ==
    (IF dilution.has_recent_dilution THEN Abs(config.penalties.recent_dilution) ELSE 0)
    + (IF dilution.has_reverse_split THEN Abs(config.penalties.upcoming_rs) ELSE 0)
    + (IF ~fundamental.passes_filters THEN Abs(config.penalties.negative_cash_flow) ELSE 0)

\* bonuses_total of calculate_score, in points.
bonuses_total(config, volume, catalyst, pump) ==
    (IF volume.exceptional_volume THEN config.bonuses.exceptional_volume ELSE 0)
    + (IF Len(catalyst.catalysts) > 1 THEN config.bonuses.multiple_catalysts ELSE 0)
    + (IF catalyst.strong_sentiment THEN config.bonuses.strong_sentiment ELSE 0)
    + (IF pump.has_pump_potential THEN config.bonuses.pump_potential ELSE 0)

\* total_score of calculate_score before penalties and bonuses, in units of
\* 1/TotalPoint.
weighted_total(config, volume, catalyst, squeeze, fundamental) ==
    volume.score * config.weights.volume_technical
    + catalyst.score * config.weights.catalyst
    + squeeze.score * config.weights.short_squeeze
    + fundamental.score * config.weights.fundamental

\* final_score of calculate_score, in units of 1/TotalPoint.
final_score(total, penalties, bonuses) ==
    Max(0, Min(100 * TotalPoint, total - penalties * TotalPoint + bonuses * TotalPoint))

\* qualifies with the total floor and the dilution gate alone.
qualifies_on_total(config, final, volume, catalyst, fundamental, dilution) ==
    /\ final >= config.thresholds.min_total_score * TotalPoint
    /\ ~dilution.has_dilution_risk

\* qualifies of calculate_score.
qualifies(config, final, volume, catalyst, fundamental, dilution) ==
    /\ final >= config.thresholds.min_total_score * TotalPoint
    /\ volume.score >= config.thresholds.min_volume_technical_score * Point
    /\ catalyst.score >= config.thresholds.min_catalyst_score * Point
    /\ fundamental.score >= config.thresholds.min_fundamental_score * Point
    /\ ~dilution.has_dilution_risk

\* The ScoreResult calculate_score returns (the sub-scores stay in the
\* variables they were computed into).
ScoreResult(config, volume, catalyst, squeeze, fundamental, pump, dilution) ==
    LET penalties == penalties_total(config, fundamental, dilution)
        bonuses == bonuses_total(config, volume, catalyst, pump)
        final == final_score(weighted_total(config, volume, catalyst, squeeze, fundamental),
                             penalties, bonuses)
    IN  [total_score |-> final,
         qualifies |-> qualifies(config, final, volume, catalyst, fundamental, dilution),
         penalties |-> penalties,
         bonuses |-> bonuses]

NoScore == [score |-> 0]
NoResult == [total_score |-> 0, qualifies |-> FALSE, penalties |-> 0, bonuses |-> 0]

InitScorer ==
    /\ scpc = "idle"
    /\ current_volume = None
    /\ volume_score = [score |-> 0, factors |-> {}, exceptional_volume |-> FALSE]
    /\ volume_spike = NoSpike
    /\ history = <<>>
    /\ catalyst_score = [score |-> 0, catalysts |-> <<>>, strong_sentiment |-> FALSE]
    /\ short_squeeze_score = NoScore
    /\ fundamental_score = [score |-> 0, passes_filters |-> FALSE]
    /\ pump_potential = [has_pump_potential |-> FALSE]
    /\ dilution_risk = [has_dilution_risk |-> FALSE, has_recent_dilution |-> FALSE,
                        has_reverse_split |-> FALSE]
    /\ score_result = NoResult
    /\ failed = {}

\* The volumes calculate_score is called with while the stores are held
\* fixed: none, and around two and a half and five times an average of 20.
WorldVolumes == {None, <<49>>, <<50>>, <<100>>, <<101>>}

\* What get_volume_statistics answers then.
WorldStats ==
    {[ok |-> FALSE, average_volume |-> 0]}
    \cup {[ok |-> TRUE, average_volume |-> a] : a \in {0, 20}}

\* What the news and fundamentals tools answer for a ticker nothing is
\* known of (no article, no short-interest data, a weak company) ...
QuietTools ==
    [news |-> [ok |-> TRUE, articles |-> <<>>],
     short |-> [status |-> "error", short_percent_float |-> 0, days_to_cover |-> 0,
                shares_short |-> 0, shares_outstanding |-> 0, average_volume |-> 0],
     stability |-> [status |-> "ok", stability_score |-> 50],
     fundamentals |-> [ok |-> TRUE, total_cash |-> 1000000, market_cap |-> 40000000,
                       revenue_growth |-> -20, debt_to_equity |-> 300],
     pump |-> [adapters |-> "ok", volume_known |-> FALSE, flag |-> FALSE],
     dilution |-> [status |-> "ok", has_recent_dilution |-> FALSE,
                   high_risk_score |-> FALSE],
     rs |-> [ok |-> TRUE, has_reverse_split |-> FALSE]]

\* ... and for one with a catalyst, a high short interest, strong
\* fundamentals and a recent dilution.
StrongTools ==
    [news |-> [ok |-> TRUE,
               articles |-> <<[catalyst_type |-> "biotech_phase3",
                               sentiment_score |-> 100]>>],
     short |-> [status |-> "ok", short_percent_float |-> 30, days_to_cover |-> 6,
                shares_short |-> 1, shares_outstanding |-> 4, average_volume |-> 100],
     stability |-> [status |-> "ok", stability_score |-> 400],
     fundamentals |-> [ok |-> TRUE, total_cash |-> 20000000, market_cap |-> 100000000,
                       revenue_growth |-> 20, debt_to_equity |-> 50],
     pump |-> [adapters |-> "ok", volume_known |-> TRUE, flag |-> TRUE],
     dilution |-> [status |-> "ok", has_recent_dilution |-> TRUE,
                   high_risk_score |-> FALSE],
     rs |-> [ok |-> TRUE, has_reverse_split |-> TRUE]]

\* What the stores and the tools hold while a ticker is scored, with the
\* current_volume the calls are made with: every call reads the same.
Worlds ==
    {[current_volume |-> v, price_row |-> row, stats |-> stats,
      sustained |-> sustained, tech |-> tech, breakout |-> breakout, tools |-> tools] :
        v \in WorldVolumes, row \in PriceRows, stats \in WorldStats,
        sustained \in SustainedAnswers, tech \in TechAnswers,
        breakout \in BreakoutAnswers, tools \in {QuietTools, StrongTools}}

\* The world of a ticker nothing is stored of.
QuietWorld ==
    [current_volume |-> None,
     price_row |-> [ok |-> TRUE, found |-> FALSE, volume |-> 0],
     stats |-> [ok |-> TRUE, average_volume |-> 0],
     sustained |-> "no", tech |-> [status |-> "insufficient", signals |-> {}],
     breakout |-> "no", tools |-> QuietTools]

\* The scorer of a process that scores nothing on its own: the defaults.
InitScorerIdle == InitScorer /\ score_config = DefaultConfig /\ world = QuietWorld

\* The scorer under each configuration.
InitScorerAny == InitScorer /\ score_config \in Configs /\ world = QuietWorld

\* The scorer with the defaults over each world.
InitScorerWorld == InitScorer /\ score_config = DefaultConfig /\ world \in Worlds

\* An await of calculate_score raises: the exception leaves calculate_score.
Raise(component) ==
    /\ scpc' = "raised"
    /\ failed' = failed \cup {component}

\* calculate_score is called with a volume or with none.
ScoreBegin(volume) ==
    /\ scpc = "idle"
    /\ current_volume' = volume
    /\ scpc' = IF volume = None THEN "current_price" ELSE "volume_technical"
    /\ UNCHANGED <<score_config, volume_score, catalyst_score, short_squeeze_score,
                   fundamental_score, pump_potential, dilution_risk, score_result, failed>>
    /\ UNCHANGED <<volume_spike, world, history>>
    /\ UNCHANGED <<alertVars, wsVars, orchVars, techVars, lifeVars, volVars, otherVars>>

\* get_current_price's row goes unread: the volume stays as it was given.
GetCurrentPriceUnread(row) ==
    /\ scpc = "current_price"
    /\ IF ~row.ok
       THEN Raise("current_price") /\ UNCHANGED current_volume
       ELSE /\ scpc' = "volume_technical"
            /\ UNCHANGED <<current_volume, failed>>
    /\ UNCHANGED <<score_config, volume_score, catalyst_score, short_squeeze_score,
                   fundamental_score, pump_potential, dilution_risk, score_result>>
    /\ UNCHANGED <<volume_spike, world, history>>
    /\ UNCHANGED <<alertVars, wsVars, orchVars, techVars, lifeVars, volVars, otherVars>>

\* No volume was given: the latest price row is read.
GetCurrentPrice(row) ==
    /\ scpc = "current_price"
    /\ IF ~row.ok
       THEN Raise("current_price") /\ UNCHANGED current_volume
       ELSE /\ scpc' = "volume_technical"
            /\ current_volume' = IF row.found THEN <<row.volume>> ELSE None
            /\ UNCHANGED failed
    /\ UNCHANGED <<score_config, volume_score, catalyst_score, short_squeeze_score,
                   fundamental_score, pump_potential, dilution_risk, score_result>>
    /\ UNCHANGED <<volume_spike, world, history>>
    /\ UNCHANGED <<alertVars, wsVars, orchVars, techVars, lifeVars, volVars, otherVars>>

\* 1. Volume/technical analysis.
VolumeTechnical(stats, sustained, tech, breakout) ==
    /\ scpc = "volume_technical"
    /\ LET raises == VolumeTechnicalRaises(current_volume, stats, tech, breakout)
       IN  IF raises # "none"
           THEN Raise(raises) /\ UNCHANGED <<volume_score, volume_spike>>
           ELSE /\ volume_spike' = VolumeSpike(current_volume, stats, sustained)
                /\ volume_score' = _calculate_volume_technical_score(
                                       current_volume, stats, sustained, tech, breakout)
                /\ scpc' = "catalyst"
                /\ UNCHANGED failed
    /\ UNCHANGED <<score_config, current_volume, catalyst_score, short_squeeze_score,
                   fundamental_score, pump_potential, dilution_risk, score_result>>
    /\ UNCHANGED <<world, history>>
    /\ UNCHANGED <<alertVars, wsVars, orchVars, techVars, lifeVars, volVars, otherVars>>

\* 2. Catalyst analysis: a failure of the news tool comes back as
\* success = False.
Catalyst(news) ==
    /\ scpc = "catalyst"
    /\ catalyst_score' = _calculate_catalyst_score(news)
    /\ failed' = IF news.ok THEN failed ELSE failed \cup {"catalyst"}
    /\ scpc' = "short_squeeze"
    /\ UNCHANGED <<score_config, current_volume, volume_score, short_squeeze_score,
                   fundamental_score, pump_potential, dilution_risk, score_result>>
    /\ UNCHANGED <<volume_spike, world, history>>
    /\ UNCHANGED <<alertVars, wsVars, orchVars, techVars, lifeVars, volVars, otherVars>>

\* 3. Short squeeze analysis.
ShortSqueeze(short, stats) ==
    /\ scpc = "short_squeeze"
    /\ LET raises == ShortSqueezeRaises(short, stats)
       IN  IF raises # "none"
           THEN Raise(raises) /\ UNCHANGED short_squeeze_score
           ELSE /\ short_squeeze_score' = _calculate_short_squeeze_score(short, stats)
                /\ failed' = IF short.status = "fail"
                             THEN failed \cup {"short_squeeze"} ELSE failed
                /\ scpc' = "fundamental"
    /\ UNCHANGED <<score_config, current_volume, volume_score, catalyst_score,
                   fundamental_score, pump_potential, dilution_risk, score_result>>
    /\ UNCHANGED <<volume_spike, world, history>>
    /\ UNCHANGED <<alertVars, wsVars, orchVars, techVars, lifeVars, volVars, otherVars>>

\* 4. Fundamental analysis.
Fundamental(stability, fundamentals) ==
    /\ scpc = "fundamental"
    /\ fundamental_score' = _calculate_fundamental_score(stability, fundamentals)
    /\ failed' = IF stability.status = "fail"
                 THEN failed \cup {"fundamental"} ELSE failed
    /\ scpc' = "pump_potential"
    /\ UNCHANGED <<score_config, current_volume, volume_score, catalyst_score,
                   short_squeeze_score, pump_potential, dilution_risk, score_result>>
    /\ UNCHANGED <<volume_spike, world, history>>
    /\ UNCHANGED <<alertVars, wsVars, orchVars, techVars, lifeVars, volVars, otherVars>>

\* 5. Pump potential.
PumpPotential(adapters, volume_known, stats_ok, flag) ==
    /\ scpc = "pump_potential"
    /\ LET raises == PumpRaises(adapters, current_volume, volume_known, stats_ok)
       IN  IF raises # "none"
           THEN Raise(raises) /\ UNCHANGED pump_potential
           ELSE /\ pump_potential' = detect_pump_potential(adapters, flag)
                /\ failed' = IF adapters = "fail"
                             THEN failed \cup {"pump_potential"} ELSE failed
                /\ scpc' = "dilution"
    /\ UNCHANGED <<score_config, current_volume, volume_score, catalyst_score,
                   short_squeeze_score, fundamental_score, dilution_risk, score_result>>
    /\ UNCHANGED <<volume_spike, world, history>>
    /\ UNCHANGED <<alertVars, wsVars, orchVars, techVars, lifeVars, volVars, otherVars>>

\* 6. Dilution risk check, then the total, the penalties, the bonuses, the
\* qualification and the return: nothing is awaited after the check.
Dilution(dilution, rs) ==
    /\ scpc = "dilution"
    /\ dilution_risk' = check_dilution_risk(dilution, rs)
    /\ failed' = IF dilution.status = "fail" THEN failed \cup {"dilution"} ELSE failed
    /\ score_result' = ScoreResult(score_config, volume_score, catalyst_score,
                                   short_squeeze_score, fundamental_score,
                                   pump_potential, dilution_risk')
    /\ scpc' = "returned"
    /\ UNCHANGED <<score_config, current_volume, volume_score, catalyst_score,
                   short_squeeze_score, fundamental_score, pump_potential>>
    /\ UNCHANGED <<volume_spike, world, history>>
    /\ UNCHANGED <<alertVars, wsVars, orchVars, techVars, lifeVars, volVars, otherVars>>

\* What a call of calculate_score came to, as its caller has it: the
\* ScoreResult with its sub-scores, or the exception.
Outcome ==
    IF scpc = "returned"
    THEN [returned |-> TRUE, result |-> score_result,
          volume_score |-> volume_score, catalyst_score |-> catalyst_score,
          short_squeeze_score |-> short_squeeze_score,
          fundamental_score |-> fundamental_score,
          pump_potential |-> pump_potential, dilution_risk |-> dilution_risk,
          failed |-> failed]
    ELSE [returned |-> FALSE, result |-> NoResult,
          volume_score |-> [score |-> 0, factors |-> {}, exceptional_volume |-> FALSE],
          catalyst_score |-> [score |-> 0, catalysts |-> <<>>,
                              strong_sentiment |-> FALSE],
          short_squeeze_score |-> NoScore,
          fundamental_score |-> [score |-> 0, passes_filters |-> FALSE],
          pump_potential |-> [has_pump_potential |-> FALSE],
          dilution_risk |-> [has_dilution_risk |-> FALSE,
                             has_recent_dilution |-> FALSE,
                             has_reverse_split |-> FALSE],
          failed |-> failed]

\* calculate_score has returned or raised: what it came to is with the
\* caller and its locals are gone; the calculator keeps its configuration.
ScoreEnd ==
    /\ scpc \in {"returned", "raised"}
    /\ history' = Append(history, Outcome)
    /\ scpc' = "idle"
    /\ current_volume' = None
    /\ volume_score' = [score |-> 0, factors |-> {}, exceptional_volume |-> FALSE]
    /\ volume_spike' = NoSpike
    /\ catalyst_score' = [score |-> 0, catalysts |-> <<>>, strong_sentiment |-> FALSE]
    /\ short_squeeze_score' = NoScore
    /\ fundamental_score' = [score |-> 0, passes_filters |-> FALSE]
    /\ pump_potential' = [has_pump_potential |-> FALSE]
    /\ dilution_risk' = [has_dilution_risk |-> FALSE, has_recent_dilution |-> FALSE,
                         has_reverse_split |-> FALSE]
    /\ score_result' = NoResult
    /\ failed' = {}
    /\ UNCHANGED <<score_config, world>>
    /\ UNCHANGED <<alertVars, wsVars, orchVars, techVars, lifeVars, volVars, otherVars>>

\* Calls of calculate_score one after the other over one world: every
\* store and tool answers what the world holds.
NextScoreWorld ==
    \/ Len(history) < MaxCalls /\ ScoreBegin(world.current_volume)
    \/ GetCurrentPrice(world.price_row)
    \/ VolumeTechnical(world.stats, world.sustained, world.tech, world.breakout)
    \/ Catalyst(world.tools.news)
    \/ ShortSqueeze(world.tools.short, world.stats)
    \/ Fundamental(world.tools.stability, world.tools.fundamentals)
    \/ PumpPotential(world.tools.pump.adapters, world.tools.pump.volume_known,
                     world.stats.ok, world.tools.pump.flag)
    \/ Dilution(world.tools.dilution, world.tools.rs)
    \/ ScoreEnd

NextScore ==
    \/ \E volume \in CurrentVolumes : ScoreBegin(volume)
    \/ \E row \in PriceRows : GetCurrentPrice(row)
    \/ \E stats \in VolumeStats, sustained \in SustainedAnswers,
          tech \in TechAnswers, breakout \in BreakoutAnswers :
          VolumeTechnical(stats, sustained, tech, breakout)
    \/ \E news \in NewsAnswers : Catalyst(news)
    \/ \E short \in ShortInterestAnswers, stats \in VolumeStats : ShortSqueeze(short, stats)
    \/ \E stability \in StabilityAnswers, fundamentals \in FundamentalsAnswers :
          Fundamental(stability, fundamentals)
    \/ \E adapters \in PumpAdapterAnswers, volume_known \in BOOLEAN,
          stats_ok \in BOOLEAN, flag \in BOOLEAN :
          PumpPotential(adapters, volume_known, stats_ok, flag)
    \/ \E dilution \in DilutionAnswers, rs \in ReverseSplitAnswers : Dilution(dilution, rs)


\* ------------------------------------------------- the technical indicators
\* TechnicalIndicators (processing/technical_indicators.py): the periods it
\* is built with and calculate_all_indicators over the closes of a price
\* history. The averages of the RSI and of the moving averages are exact
\* fractions; the exponential averages of the MACD are floats to four decimals.

\* technical_indicators.py lines 19 and 23 and the defaults of 20 and 21.
rsi_period == 14
macd_fast == 12
macd_slow == 26
rsi_oversold == 30
rsi_overbought == 70

\* The periods of the signal_detection.technical_indicators settings: the
\* defaults (25, 26, 24), and a 5/20 pair of moving averages.
PeriodSettings ==
    {[sma_short |-> 10, sma_long |-> 50, macd_signal |-> 9],
     [sma_short |-> 5, sma_long |-> 20, macd_signal |-> 9]}

\* The first close of a price history.
BasePrice == 100

\* The closes of a history of n bars that moves by a at every bar and by b
\* at its last k bars.
Closes(n, a, b, k) ==
    [i \in 1..n |-> BasePrice + a * Min(i - 1, n - 1 - k)
                              + b * Max(0, (i - 1) - (n - 1 - k))]

\* The price histories get_price_history returns: up to MaxSeries bars,
\* rising, flat or falling, turning at most MaxTurn bars before the end.
Series ==
    {Closes(n, a, b, k) : n \in 0..MaxSeries, a \in {-1, 0, 1}, b \in {-1, 0, 1},
                          k \in 0..MaxTurn}

RECURSIVE GCD(_, _)
GCD(a, b) == IF b = 0 THEN a ELSE GCD(b, a % b)

\* The float num / den (num >= 0, den > 0), in lowest terms.
Fraction(num, den) ==
    LET g == GCD(num, den) IN [num |-> num \div g, den |-> den \div g]

RECURSIVE SumRange(_, _, _)
\* sum(data[lo - 1:hi]).
SumRange(data, lo, hi) ==
    IF lo > hi THEN 0
    ELSE IF lo = hi THEN data[lo]
    ELSE LET mid == (lo + hi) \div 2
         IN  SumRange(data, lo, mid) + SumRange(data, mid + 1, hi)

\* np.diff(closes).
np_diff(closes) == [i \in 1..(Len(closes) - 1) |-> closes[i + 1] - closes[i]]

RECURSIVE Smooth(_, _, _, _)
\* The loop of _calculate_rsi from values[i] on:
\* avg[i] = (avg[i-1] * (period - 1) + values[i-1]) / period. (The
\* denominator of a fraction is never 0: reading it has the average at hand
\* worked out before the next one.)
Smooth(avg, values, i, period) ==
    IF i > Len(values) \/ avg.den = 0 THEN avg
    ELSE Smooth(Fraction(avg.num * (period - 1) + values[i] * avg.den,
                         avg.den * period),
                values, i + 1, period)

\* The last element of avg_gains (or of avg_losses) of _calculate_rsi.
LastAverage(values, period) ==
    Smooth(Fraction(SumRange(values, 1, period), period), values, period + 1, period)

\* rs = np.where(avg_losses != 0, avg_gains / avg_losses, 0) and
\* rsi = 100 - (100 / (1 + rs)), which is 100 * rs / (1 + rs).
Rsi(avg_gain, avg_loss) ==
    IF avg_loss.num # 0
    THEN Fraction(100 * avg_gain.num * avg_loss.den,
                  avg_gain.num * avg_loss.den + avg_gain.den * avg_loss.num)
    ELSE [num |-> 0, den |-> 1]

\* _calculate_rsi: the length of the array it returns and its last element.
_calculate_rsi(closes) ==
    IF Len(closes) < rsi_period + 1
    THEN [len |-> 0, last |-> [num |-> 0, den |-> 1]]
    ELSE LET deltas == np_diff(closes)
             gains == [i \in DOMAIN deltas |-> IF deltas[i] > 0 THEN deltas[i] ELSE 0]
             losses == [i \in DOMAIN deltas |-> IF deltas[i] < 0 THEN 0 - deltas[i] ELSE 0]
             avg_gain == LastAverage(gains, rsi_period)
             avg_loss == LastAverage(losses, rsi_period)
         IN  [len |-> Len(closes) - rsi_period, last |-> Rsi(avg_gain, avg_loss)]

\* len(_calculate_ema(data, period)) and len(_calculate_sma(data, period))
\* for data of n elements.
AverageLen(n, period) == IF n < period THEN 0 ELSE n - period + 1

\* A float, to four decimals: the number of steps in a unit of price.
PriceUnit == 10000

\* Python's ==, which holds of no float and string.
PyEq(a, b) == a.type = b.type /\ a.value = b.value

PyFloat(v) == [type |-> "float", value |-> v]
PyStr(v) == [type |-> "str", value |-> v]

RECURSIVE EmaLoop(_, _, _)
\* The loop of _calculate_ema:
\* ema[i] = (data[period + i - 1] - ema[i - 1]) * multiplier + ema[i - 1],
\* with multiplier = 2.0 / (period + 1).
EmaLoop(ema, data, period) ==
    IF Len(ema) >= Len(data) - period + 1 THEN ema
    ELSE LET prev == ema[Len(ema)]
         IN  EmaLoop(Append(ema, ((data[period + Len(ema)] - prev) * 2)
                                     \div (period + 1) + prev),
                     data, period)

\* _calculate_ema over data in steps of 1 / PriceUnit.
_calculate_ema(data, period) ==
    IF Len(data) < period THEN <<>>
    ELSE EmaLoop(<<SumRange(data, 1, period) \div period>>, data, period)

\* data[-n:] for 0 < n <= len(data).
LastN(data, n) == SubSeq(data, Len(data) - n + 1, Len(data))

\* The crossover _calculate_macd reads off the last two elements of
\* macd_line and signal_line.
MacdTrend(macd_line, signal_line) ==
    IF Len(signal_line) > 0 /\ Len(macd_line) >= Len(signal_line)
    THEN IF Len(macd_line) > 1 /\ Len(signal_line) > 1
         THEN LET current_macd == macd_line[Len(macd_line)]
                  current_signal == signal_line[Len(signal_line)]
                  prev_macd == macd_line[Len(macd_line) - 1]
                  prev_signal == signal_line[Len(signal_line) - 1]
              IN  IF prev_macd <= prev_signal /\ current_macd > current_signal
                  THEN "bullish"
                  ELSE IF prev_macd >= prev_signal /\ current_macd < current_signal
                  THEN "bearish"
                  ELSE "neutral"
         ELSE "neutral"
    ELSE "neutral"

\* _calculate_macd: the dictionary it returns, as the set of its keys and
\* the values of "signal" (a float, the last of signal_line) and "trend"
\* (the crossover).
_calculate_macd(closes, settings) ==
    IF Len(closes) < macd_slow
    THEN [keys |-> {"error"}, signal |-> PyFloat(0), trend |-> PyStr("none")]
    ELSE LET data == [i \in DOMAIN closes |-> closes[i] * PriceUnit]
             fast == _calculate_ema(data, macd_fast)
             slow == _calculate_ema(data, macd_slow)
             ema_fast == IF Len(slow) < Len(fast) THEN LastN(fast, Len(slow)) ELSE fast
             ema_slow == IF Len(fast) < Len(slow) THEN LastN(slow, Len(fast)) ELSE slow
             macd_line == [i \in DOMAIN ema_fast |-> ema_fast[i] - ema_slow[i]]
             signal_line == IF Len(macd_line) < settings.macd_signal THEN <<>>
                            ELSE _calculate_ema(macd_line, settings.macd_signal)
             read == Len(signal_line) > 0 /\ Len(macd_line) >= Len(signal_line)
         IN  [keys |-> {"macd", "signal", "histogram", "trend"},
              signal |-> PyFloat(IF read THEN signal_line[Len(signal_line)] ELSE 0),
              trend |-> PyStr(MacdTrend(macd_line, signal_line))]

\* _calculate_sma: the length of the array it returns and the sums its last
\* two elements are the means of (0 where there is no such element).
_calculate_sma(data, period) ==
    LET n == Len(data)
        len == AverageLen(n, period)
    IN  [len |-> len, period |-> period,
         last |-> IF len > 0 THEN SumRange(data, n - period + 1, n) ELSE 0,
         prev |-> IF len > 1 THEN SumRange(data, n - period, n - 1) ELSE 0]

NoTechnicalData ==
    [status |-> "none", computed |-> {}, rsi |-> None, signals |-> {},
     trend |-> "none"]

\* calculate_all_indicators once the price history is read. A key a
\* dictionary does not hold raises KeyError.
calculate_all_indicators(closes, settings) ==
    IF Len(closes) < settings.sma_long
    THEN [status |-> "Insufficient data", computed |-> {}, rsi |-> None,
          signals |-> {}, trend |-> "none"]
    ELSE LET rsi == _calculate_rsi(closes)
             macd_data == _calculate_macd(closes, settings)
             sma_short == _calculate_sma(closes, settings.sma_short)
             sma_long == _calculate_sma(closes, settings.sma_long)
             computed == {"rsi", "macd", "sma_short", "sma_long"}
             current_rsi == IF rsi.len > 0 THEN <<rsi.last>> ELSE None
             signals ==
                 (IF current_rsi # None
                     /\ rsi.last.num < rsi_oversold * rsi.last.den
                  THEN {"rsi_oversold"} ELSE {})
                 \cup (IF current_rsi # None
                          /\ rsi.last.num > rsi_overbought * rsi.last.den
                       THEN {"rsi_overbought"} ELSE {})
                 \cup (IF /\ sma_short.len > 1 /\ sma_long.len > 1
                          /\ sma_short.last * sma_long.period
                                 > sma_long.last * sma_short.period
                          /\ sma_short.prev * sma_long.period
                                 <= sma_long.prev * sma_short.period
                       THEN {"bullish_crossover"} ELSE {})
                 \cup (IF PyEq(macd_data.signal, PyStr("bullish"))
                       THEN {"macd_bullish"} ELSE {})
                 \cup (IF /\ closes # <<>> /\ sma_short.len > 0
                          /\ closes[Len(closes)] * sma_short.period > sma_short.last
                       THEN {"price_above_sma"} ELSE {})
         IN  IF "signal" \notin macd_data.keys
             THEN [status |-> "KeyError", computed |-> computed, rsi |-> current_rsi,
                   signals |-> {}, trend |-> "none"]
             ELSE [status |-> "ok", computed |-> computed, rsi |-> current_rsi,
                   signals |-> signals, trend |-> macd_data.trend.value]

InitIndicators ==
    /\ periods \in PeriodSettings
    /\ prices \in Series
    /\ tipc = "idle"
    /\ technical_data = NoTechnicalData

\* The indicators of a process that computes none on its own.
InitIndicatorsIdle ==
    /\ periods = [sma_short |-> 10, sma_long |-> 50, macd_signal |-> 9]
    /\ prices = <<>>
    /\ tipc = "idle"
    /\ technical_data = NoTechnicalData

\* calculate_all_indicators is called: it awaits get_price_history.
IndicatorsBegin ==
    /\ tipc = "idle"
    /\ tipc' = "price_history"
    /\ UNCHANGED <<periods, prices, technical_data>>
    /\ UNCHANGED <<alertVars, wsVars, orchVars, scoreVars, lifeVars, volVars, otherVars>>

\* The price-history query raises: the exception leaves the call.
PriceHistoryFails ==
    /\ tipc = "price_history"
    /\ tipc' = "raised"
    /\ technical_data' = [NoTechnicalData EXCEPT !.status = "price_history"]
    /\ UNCHANGED <<periods, prices>>
    /\ UNCHANGED <<alertVars, wsVars, orchVars, scoreVars, lifeVars, volVars, otherVars>>

\* The price history is read and the call runs to its end: nothing else is
\* awaited.
CalculateAllIndicators ==
    /\ tipc = "price_history"
    /\ technical_data' = calculate_all_indicators(prices, periods)
    /\ tipc' = IF technical_data'.status = "KeyError" THEN "raised" ELSE "returned"
    /\ UNCHANGED <<periods, prices>>
    /\ UNCHANGED <<alertVars, wsVars, orchVars, scoreVars, lifeVars, volVars, otherVars>>

NextIndicators == IndicatorsBegin \/ PriceHistoryFails \/ CalculateAllIndicators

\* ----------------------------------------------------- the sustained volume
\* VolumeAnalyzer._check_sustained_volume (processing/volume_analyzer.py):
\* the bars of the last sustained_periods hours, oldest first, against the
\* average volume of the lookback.

\* volume_sustained_periods: the default of line 17, and a 4.
SustainedPeriods == {3, 4}

\* The volumes of the bars: below and at 1.75 times an average of 4.
BarVolumes == {6, 7}

\* What get_price_history answers: the query raises, or up to MaxBars bars.
BarHistories ==
    {[ok |-> FALSE, volumes |-> <<>>]}
    \cup {[ok |-> TRUE, volumes |-> v] :
             v \in UNION {[1..n -> BarVolumes] : n \in 0..MaxBars}}

\* What get_volume_statistics answers: the query raises, no bar with a
\* volume in the lookback, or an average of 4.
BarStats ==
    {[ok |-> FALSE, average_volume |-> 0]}
    \cup {[ok |-> TRUE, average_volume |-> a] : a \in {0, 4}}

RECURSIVE ElevatedPeriods(_, _)
\* The loop of lines 136-139: volume_multiplier is in tenths, so that
\* volume >= avg_volume * (volume_multiplier * 0.7) is compared in
\* hundredths.
ElevatedPeriods(volumes, avg_volume) ==
    IF volumes = <<>> THEN 0
    ELSE (IF Head(volumes) * 100 >= avg_volume * volume_multiplier * 7 THEN 1 ELSE 0)
         + ElevatedPeriods(Tail(volumes), avg_volume)

\* _check_sustained_volume over the oldest bars of the window.
_check_sustained_volume_oldest(price_history, stats, n) ==
    /\ price_history.ok
    /\ Len(price_history.volumes) >= n
    /\ stats.ok
    /\ stats.average_volume # 0
    /\ ElevatedPeriods(SubSeq(price_history.volumes, 1, n), stats.average_volume) * 10
           >= n * 7

\* _check_sustained_volume: an exception of either query is caught and
\* answered with False (lines 143-145).
_check_sustained_volume(price_history, stats, n) ==
    /\ price_history.ok
    /\ Len(price_history.volumes) >= n
    /\ stats.ok
    /\ stats.average_volume # 0
    /\ ElevatedPeriods(LastN(price_history.volumes, n), stats.average_volume) * 10
           >= n * 7

InitSustained ==
    /\ sustained_periods \in SustainedPeriods
    /\ bar_history \in BarHistories
    /\ bar_stats \in BarStats
    /\ svpc = "idle"
    /\ is_sustained = FALSE

\* The analyzer of a process that makes no sustained check on its own.
InitSustainedIdle ==
    /\ sustained_periods = 3
    /\ bar_history = [ok |-> TRUE, volumes |-> <<>>]
    /\ bar_stats = [ok |-> TRUE, average_volume |-> 0]
    /\ svpc = "idle"
    /\ is_sustained = FALSE

\* _check_sustained_volume is called: it awaits get_price_history.
SustainedBegin ==
    /\ svpc = "idle"
    /\ svpc' = "price_history"
    /\ UNCHANGED <<sustained_periods, bar_history, bar_stats, is_sustained>>
    /\ UNCHANGED <<alertVars, wsVars, orchVars, scoreVars, techVars, lifeVars, otherVars>>

\* The price history is answered: the call returns False on an exception
\* or on fewer bars than periods, else it awaits get_volume_statistics.
SustainedHistory ==
    /\ svpc = "price_history"
    /\ svpc' = IF bar_history.ok /\ Len(bar_history.volumes) >= sustained_periods
               THEN "volume_statistics" ELSE "returned"
    /\ is_sustained' = _check_sustained_volume(bar_history, bar_stats, sustained_periods)
    /\ UNCHANGED <<sustained_periods, bar_history, bar_stats>>
    /\ UNCHANGED <<alertVars, wsVars, orchVars, scoreVars, techVars, lifeVars, otherVars>>

\* The statistics are answered and the call runs to its end.
SustainedStatistics ==
    /\ svpc = "volume_statistics"
    /\ svpc' = "returned"
    /\ is_sustained' = _check_sustained_volume(bar_history, bar_stats, sustained_periods)
    /\ UNCHANGED <<sustained_periods, bar_history, bar_stats>>
    /\ UNCHANGED <<alertVars, wsVars, orchVars, scoreVars, techVars, lifeVars, otherVars>>

NextSustained == SustainedBegin \/ SustainedHistory \/ SustainedStatistics

\* ------------------------------------------------- the poller's thresholds
\* _poll_rest_api (main.py): the volume threshold a poll cycle applies to
\* the snapshot of its trading session.

\* The floor of line 208.
extended_floor == 50000

\* rest_poll_min_volume of the apis.polygon settings: below the floor, at
\* it, above it, and the default of line 204.
RestPollMinVolumes == {10000, 50000, 250000, 500000}

\* What _get_trading_session answers ("closed" is None).
Sessions == {"closed", "pre_market", "regular", "after_hours"}

\* The volumes "v" of the snapshot items.
ItemVolumes == {9999, 10000, 49999, 50000, 99999, 100000, 499999, 500000}

\* Line 208: extended_min_volume = max(min_volume // 5, 50_000).
extended_min_volume(min_volume) == Max(min_volume \div 5, extended_floor)

\* Line 227.
VolThreshold(s, min_volume) ==
    IF s = "regular" THEN min_volume ELSE extended_min_volume(min_volume)

\* No cycle in the session so far.
NotApplied == [s \in Sessions \ {"closed"} |-> None]

InitSession ==
    /\ rest_poll_min_volume \in RestPollMinVolumes
    /\ session = "closed"
    /\ applied = NotApplied
    /\ picked = None

\* The poller of a process whose sessions are not looked at.
InitSessionIdle ==
    /\ rest_poll_min_volume = 500000
    /\ session = "closed"
    /\ applied = NotApplied
    /\ picked = None

\* The head of a poll cycle (lines 213-227): with the markets closed the
\* poller sleeps, else it takes the threshold of the session.
PollSession(s) ==
    /\ session' = s
    /\ applied' = IF s = "closed" THEN applied
                  ELSE [applied EXCEPT ![s] = <<VolThreshold(s, rest_poll_min_volume)>>]
    /\ picked' = None
    /\ UNCHANGED <<rest_poll_min_volume, deduplication_window, brkVars>>
    /\ UNCHANGED <<alertVars, wsVars, orchVars, scoreVars, techVars, lifeVars, volVars>>

\* One item of the snapshot (lines 240-248): it is kept for scoring when
\* its volume reaches the threshold of the session.
PollItem(vol) ==
    /\ session # "closed"
    /\ picked' = <<vol >= applied[session][1]>>
    /\ UNCHANGED <<rest_poll_min_volume, session, applied, deduplication_window, brkVars>>
    /\ UNCHANGED <<alertVars, wsVars, orchVars, scoreVars, techVars, lifeVars, volVars>>

NextSession ==
    \/ \E s \in Sessions : PollSession(s)
    \/ \E vol \in ItemVolumes : PollItem(vol)

\* ------------------------------------------------------- the breakout check
\* TechnicalIndicators.detect_breakout (technical_indicators.py 253-285) over
\* the stock_prices rows of one ticker (sql_client.py 54-65), which the
\* stream handler stores while the check runs.  Prices are whole units.

\* asyncpg hands the value of a NUMERIC column over as a decimal.Decimal.
PyDecimal(v) == [type |-> "Decimal", value |-> v]

\* The highs and closes of the bars stored; a high of 0 is what a message
\* without "h" stores (websocket_handler.py line 152).
BarHighs == {0, 100, 103}
BarCloses == {100, 103}
\* A row of the ticker; in_window: its time lies between start_time and
\* end_time of get_price_range.
StoredBars == [high : BarHighs, close : BarCloses, in_window : BOOLEAN]
\* The rows of the ticker in the order of their time.
StoredHistories == UNION {[1..n -> StoredBars] : n \in 0..MaxStored}

\* No call of detect_breakout has ended.
NoBreakout == [raised |-> "none", value |-> None]

\* get_price_range, timeseries_client.py lines 62-100: MAX(high) over the
\* rows of the window, `float(stats['high']) if stats['high'] else None`.
get_price_range(rows) ==
    LET highs == {rows[i].high : i \in {j \in 1..Len(rows) : rows[j].in_window}}
        high  == IF highs = {} THEN 0 ELSE CHOOSE m \in highs : \A x \in highs : x <= m
    IN  [high |-> IF high = 0 THEN None ELSE <<high>>]

\* get_current_price, lines 102-122: the row of the latest time, or None.
get_current_price(rows) ==
    IF rows = <<>> THEN None ELSE <<rows[Len(rows)]>>

\* Python's a - b raises TypeError for a Decimal and a float.
SubRaises(a, b) == {a.type, b.type} = {"Decimal", "float"}

\* detect_breakout from line 270 on, given what the two queries returned:
\* the early return of line 271, the comparison of line 277 (a Decimal and
\* a float compare), and the dictionary of lines 279-285, whose
\* breakout_percent subtracts the float resistance from the Decimal close
\* when resistance > 0.
BreakoutResult(range, current) ==
    IF current = None \/ ~Truthy(range.high)
    THEN [raised |-> "none", value |-> <<FALSE>>]
    ELSE LET current_price == PyDecimal(current[1].close)
             resistance    == PyFloat(range.high[1])
             has_breakout  == current_price.value * 100 > resistance.value * 102
         IN  IF resistance.value > 0 /\ SubRaises(current_price, resistance)
             THEN [raised |-> "TypeError", value |-> None]
             ELSE [raised |-> "none", value |-> <<has_breakout>>]

InitBreakoutIdle ==
    /\ stock_prices = <<>>
    /\ brpc = "idle"
    /\ price_range = [high |-> None]
    /\ current_price_data = None
    /\ breakout_result = NoBreakout
    /\ stored_during = FALSE

InitBreakout ==
    /\ stock_prices \in StoredHistories
    /\ brpc = "idle"
    /\ price_range = [high |-> None]
    /\ current_price_data = None
    /\ breakout_result = NoBreakout
    /\ stored_during = FALSE

\* detect_breakout is called (swing_score_calculator.py line 260).
BreakoutBegin ==
    /\ brpc \in {"idle", "done"}
    /\ brpc' = "price_range"
    /\ stored_during' = FALSE
    /\ UNCHANGED <<stock_prices, price_range, current_price_data, breakout_result>>
    /\ UNCHANGED <<alertVars, wsVars, orchVars, scoreVars, techVars, lifeVars, volVars,
                   sessVars, deduplication_window>>

\* Line 267: `await self.ts_client.get_price_range(ticker, days)`.
BreakoutPriceRange ==
    /\ brpc = "price_range"
    /\ price_range' = get_price_range(stock_prices)
    /\ brpc' = "current_price"
    /\ UNCHANGED <<stock_prices, current_price_data, breakout_result, stored_during>>
    /\ UNCHANGED <<alertVars, wsVars, orchVars, scoreVars, techVars, lifeVars, volVars,
                   sessVars, deduplication_window>>

\* Lines 268-285: `await self.ts_client.get_current_price(ticker)` and the
\* rest of the call.
BreakoutCurrentPrice ==
    /\ brpc = "current_price"
    /\ current_price_data' = get_current_price(stock_prices)
    /\ breakout_result' = BreakoutResult(price_range, get_current_price(stock_prices))
    /\ brpc' = "done"
    /\ UNCHANGED <<stock_prices, price_range, stored_during>>
    /\ UNCHANGED <<alertVars, wsVars, orchVars, scoreVars, techVars, lifeVars, volVars,
                   sessVars, deduplication_window>>

\* _handle_aggregate's insert_price_data (websocket_handler.py 148-157,
\* sql_client.py 142-168) in the listen task: a row of a later time is
\* added, or the row of the latest time is overwritten (ON CONFLICT).
StoreBar(b, conflict) ==
    /\ IF conflict
       THEN /\ stock_prices # <<>>
            /\ stock_prices' = [stock_prices EXCEPT ![Len(stock_prices)] = b]
       ELSE /\ Len(stock_prices) < MaxStored
            /\ stock_prices' = Append(stock_prices, b)
    /\ stored_during' = (stored_during \/ brpc \in {"price_range", "current_price"})
    /\ UNCHANGED <<brpc, price_range, current_price_data, breakout_result>>
    /\ UNCHANGED <<alertVars, wsVars, orchVars, scoreVars, techVars, lifeVars, volVars,
                   sessVars, deduplication_window>>

NextBreakout ==
    \/ BreakoutBegin
    \/ BreakoutPriceRange
    \/ BreakoutCurrentPrice
    \/ \E b \in StoredBars, conflict \in BOOLEAN : StoreBar(b, conflict)

\* Nothing of what otherVars holds is under way.
InitOtherIdle ==
    /\ InitSessionIdle
    /\ deduplication_window = deduplication_window_minutes
    /\ InitBreakoutIdle

\* --------------------------------------------------------- the orchestrator
\* StockTradingAssistant (main.py): the stream handler _handle_market_data
\* and the REST poller _poll_rest_api, both in front of the alerting gate.
\* Monotonic time is in seconds.

\* main.py lines 149, 150 (and 206), 203.
min_volume_to_consider == 50000
per_ticker_cooldown_seconds == 120
rest_poll_interval_seconds == 60

\* The volumes of the bars that arrive.
Volumes == {0, 49999, 50000, 50001}
\* The tickers a poll cycle can find, in the order of line 264.
PollQueues == {<<"AAA">>, <<PollOnlyTicker, "AAA">>}
\* What one poll cycle can come to before it scores.
PollOutcomes == {"closed", "request_failed", "non_200", "no_tickers", "tickers"}

\* No bar decided on; seq tells two decisions in a row apart.
NoBar == [ticker |-> "", volume |-> 0, decision |-> "none", seq |-> 0]

\* main.py lines 159, 265: `sym in checks and (t - checks[sym]) < cooldown_sec`.
InCooldown(checks, ticker, t) ==
    /\ ticker \in DOMAIN checks
    /\ (t - checks[ticker]) < per_ticker_cooldown_seconds

\* main.py lines 161, 267: `checks[sym] = t`.
SetCheck(checks, ticker, t) ==
    [k \in DOMAIN checks \cup {ticker} |-> IF k = ticker THEN t ELSE checks[k]]

\* StockTradingAssistant.__init__, lines 36-42, under either setting of
\* monitor_all_stocks; no task runs yet.
InitOrch ==
    /\ monitor_all \in BOOLEAN
    /\ app_running = FALSE
    /\ mono = 0
    /\ ticker_last_check = <<>>
    /\ last_start = <<>>
    /\ bar = NoBar
    /\ pollpc = "not_started"
    /\ poll_queue = <<>>
    /\ mono_now = 0
    /\ poll_sleeping = 0
    /\ pollLast = "none"

\* ... and with the default monitor_all_stocks = False.
InitOrchDefault == InitOrch /\ monitor_all = FALSE

\* start, lines 52-53 and 96-99: running is set and the poller task created.
OrchStart ==
    /\ pollpc = "not_started"
    /\ app_running' = TRUE
    /\ pollpc' = "head"
    /\ bar' = NoBar
    /\ UNCHANGED <<monitor_all, mono, ticker_last_check, last_start, poll_queue, mono_now,
                   poll_sleeping, pollLast>>
    /\ UNCHANGED <<alertVars, wsVars, scoreVars, techVars, lifeVars, volVars, otherVars>>

\* stop, line 114, and _signal_handler, line 128.
OrchStop ==
    /\ app_running
    /\ app_running' = FALSE
    /\ bar' = NoBar
    /\ UNCHANGED <<monitor_all, mono, ticker_last_check, last_start, pollpc, poll_queue,
                   mono_now, poll_sleeping, pollLast>>
    /\ UNCHANGED <<alertVars, wsVars, scoreVars, techVars, lifeVars, volVars, otherVars>>

\* time.monotonic() advances.
MonoTick ==
    /\ mono + TickSeconds <= MaxMono
    /\ mono' = mono + TickSeconds
    /\ bar' = NoBar
    /\ UNCHANGED <<monitor_all, app_running, ticker_last_check, last_start, pollpc, poll_queue,
                   mono_now, poll_sleeping, pollLast>>
    /\ UNCHANGED <<alertVars, wsVars, scoreVars, techVars, lifeVars, volVars, otherVars>>

\* The stream handler without the cooldown test of line 159.
HandleMarketDataNoCooldown(raw, volume) ==
    LET ticker == normalize_ticker(raw)
        skipped == \/ volume <= 0
                   \/ /\ monitor_all
                      /\ volume < min_volume_to_consider
    IN
    /\ pollpc # "not_started"
    /\ call["stream"].pc = "idle"
    /\ IF skipped
       THEN /\ bar' = [ticker |-> ticker, volume |-> volume, decision |-> "skipped",
                         seq |-> 1 - bar.seq]
            /\ UNCHANGED <<call, sem, ticker_last_check, last_start>>
       ELSE /\ bar' = [ticker |-> ticker, volume |-> volume, decision |-> "scored",
                         seq |-> 1 - bar.seq]
            /\ ticker_last_check' = IF monitor_all
                                    THEN SetCheck(ticker_last_check, ticker, mono)
                                    ELSE ticker_last_check
            /\ last_start' = SetCheck(last_start, ticker, mono)
            /\ EnterScoring("stream", ticker)
    /\ last' = NoReturn
    /\ UNCHANGED <<now, db, recent_alerts, max_concurrent_scoring>>
    /\ UNCHANGED <<monitor_all, app_running, mono, pollpc, poll_queue, mono_now,
                   poll_sleeping, pollLast>>
    /\ UNCHANGED <<wsVars, scoreVars, techVars, lifeVars, volVars, otherVars>>

\* _handle_market_data, lines 139-165, for an aggregate bar: the filters, the
\* last-checked map, and the entry into the scoring semaphore.
HandleMarketData(raw, volume) ==
    LET ticker == normalize_ticker(raw)
        skipped == \/ volume <= 0
                   \/ /\ monitor_all
                      /\ \/ volume < min_volume_to_consider
                         \/ InCooldown(ticker_last_check, ticker, mono)
    IN
    /\ pollpc # "not_started"
    /\ call["stream"].pc = "idle"
    /\ IF skipped
       THEN /\ bar' = [ticker |-> ticker, volume |-> volume, decision |-> "skipped",
                         seq |-> 1 - bar.seq]
            /\ UNCHANGED <<call, sem, ticker_last_check, last_start>>
       ELSE /\ bar' = [ticker |-> ticker, volume |-> volume, decision |-> "scored",
                         seq |-> 1 - bar.seq]
            /\ ticker_last_check' = IF monitor_all
                                    THEN SetCheck(ticker_last_check, ticker, mono)
                                    ELSE ticker_last_check
            /\ last_start' = SetCheck(last_start, ticker, mono)
            /\ EnterScoring("stream", ticker)
    /\ last' = NoReturn
    /\ UNCHANGED <<now, db, recent_alerts, max_concurrent_scoring>>
    /\ UNCHANGED <<monitor_all, app_running, mono, pollpc, poll_queue, mono_now,
                   poll_sleeping, pollLast>>
    /\ UNCHANGED <<wsVars, scoreVars, techVars, lifeVars, volVars, otherVars>>

\* _poll_rest_api, lines 265-270: one ticker of the cycle against the time t
\* taken at line 263: skipped inside its cooldown, else stamped with t and
\* sent to scoring.
PollTicker(sym, t) ==
    IF InCooldown(ticker_last_check, sym, t)
    THEN UNCHANGED <<call, sem, ticker_last_check, last_start>>
    ELSE /\ ticker_last_check' = SetCheck(ticker_last_check, sym, t)
         /\ last_start' = SetCheck(last_start, sym, mono)
         /\ EnterScoring("poller", sym)

\* The poll cycle retrying at once after a failed request.
PollCycleRetrying(outcome) ==
    /\ pollpc = "head"
    /\ IF ~app_running
       THEN /\ pollpc' = "stopped"
            /\ UNCHANGED <<poll_queue, mono_now, poll_sleeping, pollLast>>
            /\ UNCHANGED <<call, sem, ticker_last_check, last_start>>
       ELSE IF outcome = "tickers"
            THEN /\ pollpc' = "scoring"
                 /\ \E found \in PollQueues :
                       /\ poll_queue' = Tail(found)
                       /\ PollTicker(Head(found), mono)
                 /\ mono_now' = mono
                 /\ pollLast' = outcome
                 /\ UNCHANGED poll_sleeping
            ELSE /\ pollpc' = IF outcome = "request_failed" THEN "head" ELSE "sleep"
                 /\ poll_sleeping' = IF outcome = "request_failed"
                                     THEN 0 ELSE rest_poll_interval_seconds
                 /\ pollLast' = outcome
                 /\ UNCHANGED <<poll_queue, mono_now>>
                 /\ UNCHANGED <<call, sem, ticker_last_check, last_start>>
    /\ last' = NoReturn
    /\ bar' = NoBar
    /\ UNCHANGED <<now, db, recent_alerts, max_concurrent_scoring>>
    /\ UNCHANGED <<monitor_all, app_running, mono>>
    /\ UNCHANGED <<wsVars, scoreVars, techVars, lifeVars, volVars, otherVars>>

\* _poll_rest_api, lines 213-270: the head of the loop, the session, the two
\* requests and the branch taken on what they gave; when they gave tickers,
\* the time of line 263 and the first ticker of the loop of line 264.
PollCycle(outcome) ==
    /\ pollpc = "head"
    /\ IF ~app_running
       THEN /\ pollpc' = "stopped"
            /\ UNCHANGED <<poll_queue, mono_now, poll_sleeping, pollLast>>
            /\ UNCHANGED <<call, sem, ticker_last_check, last_start>>
       ELSE IF outcome = "tickers"
            THEN /\ pollpc' = "scoring"
                 /\ \E found \in PollQueues :
                       /\ poll_queue' = Tail(found)
                       /\ PollTicker(Head(found), mono)
                 /\ mono_now' = mono
                 /\ pollLast' = outcome
                 /\ UNCHANGED poll_sleeping
            ELSE /\ pollpc' = "sleep"
                 /\ poll_sleeping' = rest_poll_interval_seconds
                 /\ pollLast' = outcome
                 /\ UNCHANGED <<poll_queue, mono_now>>
                 /\ UNCHANGED <<call, sem, ticker_last_check, last_start>>
    /\ last' = NoReturn
    /\ bar' = NoBar
    /\ UNCHANGED <<now, db, recent_alerts, max_concurrent_scoring>>
    /\ UNCHANGED <<monitor_all, app_running, mono>>
    /\ UNCHANGED <<wsVars, scoreVars, techVars, lifeVars, volVars, otherVars>>

\* _poll_rest_api, lines 264-276: the call for the previous ticker is over
\* (returned or raised) and the next ticker of the cycle is taken, against
\* the time taken at line 263.
PollScore ==
    /\ pollpc = "scoring"
    /\ poll_queue # <<>>
    /\ call["poller"].pc = "idle"
    /\ poll_queue' = Tail(poll_queue)
    /\ PollTicker(Head(poll_queue), mono_now)
    /\ last' = NoReturn
    /\ bar' = NoBar
    /\ UNCHANGED <<now, db, recent_alerts, max_concurrent_scoring>>
    /\ UNCHANGED <<monitor_all, app_running, mono, pollpc, mono_now, poll_sleeping, pollLast>>
    /\ UNCHANGED <<wsVars, scoreVars, techVars, lifeVars, volVars, otherVars>>

\* _poll_rest_api, lines 278-282: the cycle has scored and sleeps.
PollDone ==
    /\ pollpc = "scoring"
    /\ poll_queue = <<>>
    /\ call["poller"].pc = "idle"
    /\ pollpc' = "sleep"
    /\ poll_sleeping' = rest_poll_interval_seconds
    /\ pollLast' = "scored"
    /\ bar' = NoBar
    /\ UNCHANGED <<monitor_all, app_running, mono, ticker_last_check, last_start, poll_queue,
                   mono_now>>
    /\ UNCHANGED <<alertVars, wsVars, scoreVars, techVars, lifeVars, volVars, otherVars>>

\* _poll_rest_api, lines 222-223, 251-252, 259-260, 282: the sleep ends.
PollWake ==
    /\ pollpc = "sleep"
    /\ pollpc' = "head"
    /\ poll_sleeping' = 0
    /\ pollLast' = "none"
    /\ bar' = NoBar
    /\ UNCHANGED <<monitor_all, app_running, mono, ticker_last_check, last_start, poll_queue,
                   mono_now>>
    /\ UNCHANGED <<alertVars, wsVars, scoreVars, techVars, lifeVars, volVars, otherVars>>

\* check_and_create_alert, lines 55 and 60: the query of the duplicate or of
\* the rate check raises, and the exception leaves the call (caught by the
\* caller, main.py lines 170 and 275).
QueryFails(c) ==
    /\ call[c].pc \in {"dedup", "rate"}
    /\ Finish(c, call[c], "raised")
    /\ UNCHANGED <<now, db, recent_alerts, max_concurrent_scoring>>
    /\ UNCHANGED <<wsVars, orchVars, scoreVars, techVars, lifeVars, volVars, otherVars>>

\* No push has ended yet.
NoPush == [ticker |-> "", by |-> "none", created_at |-> 0, outcome |-> "none"]

\* AlertManager.connect has opened the pool; no alert is being pushed.
InitLife == storage = "open" /\ pushes = {} /\ pushLast = NoPush

\* What a push comes to: a 200, another status, or an exception of the
\* client (no connection, the 5 s timeout).
PushOutcomes == {"ok", "non_200", "error"}

\* A push task that posts again after a failure.
PushAlertRetrying(p, outcome) ==
    /\ p \in pushes
    /\ pushes' = IF outcome = "ok" THEN pushes \ {p} ELSE pushes
    /\ pushLast' = [ticker |-> p.ticker, by |-> p.by, created_at |-> p.created_at,
                    outcome |-> outcome]
    /\ UNCHANGED storage
    /\ UNCHANGED <<alertVars, wsVars, orchVars, scoreVars, techVars, volVars, otherVars>>

\* _push_alert_to_dashboard: the task posts the alert once; a status other
\* than 200 is logged as a warning, an exception as a debug line, and the
\* task ends.
PushAlert(p, outcome) ==
    /\ p \in pushes
    /\ pushes' = pushes \ {p}
    /\ pushLast' = [ticker |-> p.ticker, by |-> p.by, created_at |-> p.created_at,
                    outcome |-> outcome]
    /\ UNCHANGED storage
    /\ UNCHANGED <<alertVars, wsVars, orchVars, scoreVars, techVars, volVars, otherVars>>

\* stop, lines 120-121, once running is False: AlertManager.disconnect
\* closes the pool of its SQLClient. pool.close() waits for the connections
\* that are in use, and a call holds one within a query only, which is one
\* step here.
StopDisconnect ==
    /\ pollpc # "not_started"
    /\ ~app_running
    /\ storage = "open"
    /\ storage' = "closed"
    /\ UNCHANGED <<pushes, pushLast>>
    /\ UNCHANGED <<alertVars, wsVars, orchVars, scoreVars, techVars, volVars, otherVars>>

NextOrch ==
    \/ OrchStart
    \/ OrchStop
    \/ MonoTick
    \/ \E raw \in RawTickers, volume \in Volumes : HandleMarketData(raw, volume)
    \/ \E outcome \in PollOutcomes : PollCycle(outcome)
    \/ PollScore
    \/ PollDone
    \/ PollWake
    \/ \E c \in GateCallers : AcquireSemaphore(c)
    \/ \E c \in GateCallers : DedupCheck(c)
    \/ \E c \in GateCallers : RateCheck(c)
    \/ \E c \in GateCallers : Score(c)
    \/ \E c \in GateCallers : CreateAlert(c)
    \/ \E c \in GateCallers : TrackAlert(c)
    \/ \E c \in GateCallers : QueryFails(c)

InitOrchestrator == InitAlert /\ InitStream /\ InitOrch /\ InitScorerIdle
    /\ InitIndicatorsIdle /\ InitLife /\ InitSustainedIdle /\ InitOtherIdle

SpecOrch == InitOrchestrator /\ [][NextOrch]_vars

\* The steps of one call of check_and_create_alert once it holds the
\* semaphore.
GateStep(c) ==
    \/ DedupCheck(c)
    \/ RateCheck(c)
    \/ Score(c)
    \/ CreateAlert(c)
    \/ TrackAlert(c)
    \/ QueryFails(c)

\* Every call that holds the semaphore goes on to its end, and a waiter of
\* the semaphore is woken when a permit is released.
\* The orchestrator in wildcard mode with the default of one scoring at a
\* time, where a second request has to wait.
InitOrchestratorQueued == InitOrchestrator /\ monitor_all /\ max_concurrent_scoring = 1

\* The orchestrator with its push tasks.
NextPush ==
    \/ NextOrch
    \/ \E p \in pushes, outcome \in PushOutcomes : PushAlert(p, outcome)

SpecPush == InitOrchestratorQueued /\ [][NextPush]_vars

\* The orchestrator with stop() closing the pool.
NextShutdown == NextOrch \/ StopDisconnect

SpecShutdown == InitOrchestratorQueued /\ [][NextShutdown]_vars

SpecOrchFair ==
    /\ InitOrchestratorQueued
    /\ [][NextOrch]_vars
    /\ \A c \in GateCallers : WF_vars(GateStep(c)) /\ SF_vars(AcquireSemaphore(c))

InitGate == InitAlert /\ InitStream /\ InitOrchDefault /\ InitScorerIdle
    /\ InitIndicatorsIdle /\ InitLife /\ InitSustainedIdle /\ InitOtherIdle

NextAlert ==
    \/ \E c \in GateCallers, raw \in RawTickers : BeginCheck(c, raw)
    \/ \E c \in GateCallers : AcquireSemaphore(c)
    \/ \E c \in GateCallers : DedupCheck(c)
    \/ \E c \in GateCallers : RateCheck(c)
    \/ \E c \in GateCallers : Score(c)
    \/ \E raw \in RawTickers, q \in BOOLEAN : CreateFromScore(raw, q)
    \/ \E c \in Callers : CreateAlert(c)
    \/ \E c \in Callers : TrackAlert(c)
    \/ \E b \in OtherBatches : OtherWriter(b)
    \/ Tick

SpecAlert == InitGate /\ [][NextAlert]_vars

\* The same gate when calls never overlap (one call at a time, as under the
\* default max_concurrent_scoring of 1 with no other caller at work), with
\* room for one more row.
AllIdle == \A c \in Callers : call[c].pc = "idle"

SerialBegin == AllIdle /\ \E raw \in RawTickers : BeginCheck("stream", raw)
SerialFromScore == AllIdle /\ \E raw \in RawTickers, q \in BOOLEAN : CreateFromScore(raw, q)
SerialOtherWriter == AllIdle /\ \E b \in OtherBatches : OtherWriterUpTo(b, MaxRowsSerial)
SerialTick == AllIdle /\ Tick

InitAlertSerial == InitAlert /\ max_concurrent_scoring = 1

NextAlertSerial ==
    \/ SerialBegin
    \/ SerialFromScore
    \/ SerialOtherWriter
    \/ SerialTick
    \/ DedupCheck("stream")
    \/ RateCheck("stream")
    \/ Score("stream")
    \/ \E c \in {"stream", "manual"} : CreateAlertUpTo(c, MaxRowsSerial)
    \/ \E c \in {"stream", "manual"} : TrackAlert(c)

InitGateSerial == InitAlertSerial /\ InitStream /\ InitOrchDefault /\ InitScorerIdle
    /\ InitIndicatorsIdle /\ InitLife /\ InitSustainedIdle /\ InitOtherIdle

SpecAlertSerial == InitGateSerial /\ [][NextAlertSerial]_vars

\* The keys _track_alert has recorded in a process that has created
\* RecentPruneThreshold alerts in the hours before: one hour bucket each.
Backlog == {<<t, 0 - i>> : t \in Tickers, i \in 1..RecentPruneThreshold}

\* The serial gate of such a process: the rows of those alerts are older
\* than every window the gate reads.
InitGateBacklog ==
    /\ now = 0
    /\ db = <<>>
    /\ recent_alerts = Backlog
    /\ call = [c \in Callers |-> IdleCall]
    /\ last = NoReturn
    /\ max_concurrent_scoring = 1
    /\ sem = max_concurrent_scoring
    /\ InitStream /\ InitOrchDefault /\ InitScorerIdle
    /\ InitIndicatorsIdle /\ InitLife /\ InitSustainedIdle /\ InitOtherIdle

SpecAlertBacklog == InitGateBacklog /\ [][NextAlertSerial]_vars


NextStream == ListenNext \/ StreamEnvNext

InitListener == InitStream /\ InitAlertSerial /\ InitOrchDefault /\ InitScorerIdle
    /\ InitIndicatorsIdle /\ InitLife /\ InitSustainedIdle /\ InitOtherIdle

SpecStream == InitListener /\ [][NextStream]_vars

\* The listen task is scheduled whenever it can take a step.
SpecStreamFair == SpecStream /\ WF_vars(ListenNext)

\* The scorer alone: one call of calculate_score under each configuration,
\* every adapter answering as it may.
InitScoring == InitAlertSerial /\ InitStream /\ InitOrchDefault /\ InitScorerAny
    /\ InitIndicatorsIdle /\ InitLife /\ InitSustainedIdle /\ InitOtherIdle

SpecScore == InitScoring /\ [][NextScore]_vars

\* The scorer over each world, called MaxCalls times.
InitScoringWorld == InitAlertSerial /\ InitStream /\ InitOrchDefault /\ InitScorerWorld
    /\ InitIndicatorsIdle /\ InitLife /\ InitSustainedIdle /\ InitOtherIdle

SpecScoreWorld == InitScoringWorld /\ [][NextScoreWorld]_vars

\* The technical indicators alone: one call of calculate_all_indicators
\* under each setting of the periods over each price history.
InitIndicatorsAlone == InitAlertSerial /\ InitStream /\ InitOrchDefault /\ InitScorerIdle
    /\ InitIndicators /\ InitLife /\ InitSustainedIdle /\ InitOtherIdle

SpecIndicators == InitIndicatorsAlone /\ [][NextIndicators]_vars

\* -------------------------------------------------------------- properties
GateRejections == {"duplicate", "rate_limited"}

\* The alerts of `ticker` stored in the hour up to t, however many other
\* alerts the table holds.
HourCount(rows, ticker, t) ==
    SumN(SelectSeq(rows, LAMBDA r: r.ticker = ticker /\ r.created_at >= t - HourMinutes
                                   /\ r.created_at <= t))

\* The ticker has had max_alerts_per_hour alerts within some rolling hour.
ReachedHourlyMax(rows, ticker) ==
    \E i \in 1..Len(rows) :
        /\ rows[i].ticker = ticker
        /\ HourCount(rows, ticker, rows[i].created_at + HourMinutes) >= max_alerts_per_hour

\* C1: at most one alert created by check_and_create_alert for a ticker
\* within any deduplication window, under every interleaving of the calls.
C1_OneAlertPerWindow ==
    \A i, j \in 1..Len(db) :
        (i < j /\ db[i].via = "check" /\ db[j].via = "check"
               /\ db[i].ticker = db[j].ticker)
        => db[j].created_at - db[i].created_at >= deduplication_window

\* C4: check_and_create_alert never creates an alert for a ticker whose most
\* recent durable alert is younger than cooldown_period, whatever the number
\* of alerts stored for other tickers.
C4_NoAlertInsideCooldown ==
    \A i, j \in 1..Len(db) :
        (i < j /\ db[j].via = "check" /\ db[i].ticker = db[j].ticker)
        => db[j].created_at - db[i].created_at >= cooldown_period

\* A step in which the gate of check_and_create_alert decides for caller c.
DedupStep(c) == call[c].pc = "dedup" /\ call'[c].pc # "dedup"
RateStep(c) == call[c].pc = "rate" /\ call'[c].pc # "rate"

Counted(rows, ticker, t) ==
    TickerRows(get_recent_alerts(rows, RateQueryLimit, t - HourMinutes), ticker)

\* An alert of the ticker among the DedupQueryLimit newest alerts of the
\* deduplication window is younger than the window.
SeenInWindow(rows, ticker, t) ==
    LET found == get_recent_alerts(rows, DedupQueryLimit, t - deduplication_window)
    IN \E i \in 1..Len(found) : /\ found[i].ticker = ticker
                                /\ found[i].created_at > t - deduplication_window

C3_RejectionChangesNothing ==
    [][(last'.entry = "check" /\ last'.outcome \in GateRejections) =>
          /\ db' = db
          /\ recent_alerts' = recent_alerts
          /\ ~last'.scored /\ ~last'.stored /\ ~last'.tracked]_vars

\* A call has just been rejected while the table holds alerts.
C3_Witness ==
    /\ last.entry = "check"
    /\ last.outcome \in GateRejections
    /\ db # <<>>

\* C5 as stated: create_alert_from_score returns an alert if and only if the
\* supplied score result qualifies.
C5_AlertIffQualifies ==
    last.entry = "from_score" => (last.outcome = "alert" <=> last.qualifies = "yes")

\* C5, amended: create_alert_from_score returns an alert if and only if the
\* score result qualifies and insert_alert succeeds (a failed insert returns
\* no alert); it never rejects as duplicate or rate-limited and never invokes
\* the scorer; a score that does not qualify stores and records nothing.
C5_AlertIffQualifiesAndStored ==
    last.entry = "from_score" =>
        /\ last.outcome \in {"alert", "not_qualified", "error"}
        /\ last.outcome = "alert" <=> (last.qualifies = "yes" /\ last.stored)
        /\ last.outcome = "error" <=> (last.qualifies = "yes" /\ ~last.stored)
        /\ last.qualifies = "no" => (~last.stored /\ ~last.tracked)
        /\ last.stored <=> last.tracked
        /\ ~last.scored

\* create_alert_from_score has created an alert for a ticker that already had
\* an alert inside the cooldown and the deduplication window.
C5_Witness ==
    /\ last.entry = "from_score"
    /\ last.outcome = "alert"
    /\ \E i, j \in 1..Len(db) :
          /\ i < j
          /\ db[j].via = "from_score"
          /\ db[i].ticker = db[j].ticker
          /\ db[j].created_at - db[i].created_at < cooldown_period

\* The last step of the listen task saw an I/O operation fail on a handle
\* that had been authenticated: the subscribe send, a read, or the
\* heartbeat send.
IOFailed ==
    \/ wsLast.ev \in {"subscribe_failed", "recv_closed"}
    \/ wsLast.sent = "heartbeat_failed"

\* C6: an I/O failure after authentication (subscribe send, read, heartbeat
\* send) leaves the handle cleared and the task asleep for the backoff
\* delay; a connect is only ever attempted out of that sleep; and while
\* running stays true the failure is followed by a new connect attempt.
C6_FailureClearsHandleAndReconnects ==
    /\ [](IOFailed => (websocket = "none" /\ wspc = "sleep" /\ sleeping = reconnect_backoff))
    /\ [][(wspc' = "connect" /\ wspc # "connect") => wspc = "sleep"]_vars
    /\ (IOFailed ~> (wspc = "connect" \/ ~running))

\* One failure since the last completed cycle, the sleep over, and the task
\* about to connect again.
C6_Witness ==
    /\ wspc = "connect"
    /\ wsLast.ev = "wake"
    /\ failStreak = 1
    /\ websocket = "none"
    /\ running

\* The delay of the n-th failure in a row.
ExpectedDelay(n) ==
    IF initial_backoff * 2 ^ (n - 1) < max_backoff
    THEN initial_backoff * 2 ^ (n - 1)
    ELSE max_backoff

\* C7: the delay slept at the n-th failure since the last completed
\* connect-and-subscribe cycle is 5 * 2^(n-1) seconds up to 120 (5, 10, 20,
\* 40, 80, 120, 120); the delay is 5 again once a cycle completes; it is
\* never below 5 or above 120.
C7_DelayDoublesToCeiling ==
    /\ reconnect_backoff >= initial_backoff
    /\ reconnect_backoff <= max_backoff
    /\ wspc = "sleep" => sleeping = ExpectedDelay(failStreak)
    /\ wsLast.ev = "cycle_ok" => reconnect_backoff = initial_backoff

\* The seventh failure in a row sleeps at the ceiling for the second time.
C7_Witness ==
    /\ wspc = "sleep"
    /\ failStreak = 7
    /\ sleeping = max_backoff

\* The read that follows a sent subscribe message, with nothing read in
\* between, found the connection closed while running was still true
\* (disconnect() had not been called: the server closed it).
ClosedAfterSubscribe ==
    /\ wsLast.ev = "recv_closed"
    /\ fresh
    /\ running

\* C8: a close by the server right after a sent subscribe message leaves the
\* handle cleared and the task asleep for 5 seconds; listen never raises
\* and returns only when running is false; and while running stays true the
\* close is followed by a new connect attempt.
C8_CloseAfterSubscribeIsNotFatal ==
    /\ [](ClosedAfterSubscribe =>
            (websocket = "none" /\ wspc = "sleep" /\ sleeping = initial_backoff))
    /\ [](wspc # "raised" /\ (wspc = "returned" => ~running))
    /\ (ClosedAfterSubscribe ~> (wspc \in {"connect", "auth", "subscribe"} \/ ~running))

C8_Witness ==
    /\ ClosedAfterSubscribe
    /\ wspc = "sleep"
    /\ websocket = "none"
    /\ sleeping = initial_backoff

\* C9: a read timeout whose heartbeat send does not fail sends the heartbeat
\* on the handle in use and goes back to reading: the handle, the
\* connection, running and the backoff delay are untouched and nothing is
\* slept.
C9_TimeoutSendsHeartbeat ==
    [][(wsLast'.ev = "timeout" /\ wsLast'.sent # "heartbeat_failed") =>
          /\ wspc = "recv"
          /\ wsLast'.sent = "heartbeat"
          /\ websocket = "open"
          /\ websocket' = websocket
          /\ running' = running
          /\ wspc' = "recv"
          /\ sleeping' = 0
          /\ reconnect_backoff' = reconnect_backoff
          /\ failStreak' = failStreak]_vars

C9_Witness ==
    /\ wsLast = Event("timeout", "heartbeat")
    /\ wspc = "recv"
    /\ websocket = "open"

\* The handlers invoked for the event at hand, in the order of invocation.
InvokedHandlers == [i \in 1..Len(invoked) |-> invoked[i].h]

\* C10: when the handler loop of an event ends, the handlers invoked for it
\* are exactly the registered handlers, once each and in registration
\* order, whatever each of them raised; a handler that raises leaves the
\* task in the handler loop, and the task goes on with the next event or
\* the next read (it returns only when running is false).
C10_EachHandlerOnceInOrder ==
    [][/\ (wspc = "handlers" /\ wspc' # "handlers") =>
            /\ InvokedHandlers = message_handlers
            /\ wspc' \in {"process", "recv", "returned"}
            /\ wspc' = "returned" => ~running
       /\ (wspc = "handlers" /\ wsLast'.ev = "handler_raised") => wspc' = "handlers"]_vars

\* Both handlers were invoked although the first one raised.
C10_Witness ==
    /\ wspc = "handlers"
    /\ hidx > Len(message_handlers)
    /\ Len(invoked) = 2
    /\ invoked[1].raised
    /\ ~invoked[2].raised
    /\ InvokedHandlers = message_handlers

\* C11: an event of a received frame ends only out of the handler loop, with
\* every registered handler invoked for it: no aggregate event is done
\* without having been dispatched to the handlers.
C11_EveryAggregateDispatched ==
    [][frame' < frame =>
          /\ wspc = "handlers"
          /\ InvokedHandlers = message_handlers
          /\ wsLast'.ev = "dispatched"]_vars

\* The pcs of a call that holds the scoring semaphore.
HoldingSemaphore == {"dedup", "rate", "score", "insert", "track"}

\* The callers of the orchestrator whose scoring is in flight.
InFlight == {c \in GateCallers : call[c].pc \in HoldingSemaphore}

\* C12: the scoring invocations in flight started by the stream handler and
\* the poller together never exceed max_concurrent_scoring, and the permits
\* left are what the invocations in flight have not taken.
C12_ScoringBoundedBySemaphore ==
    /\ Cardinality(InFlight) <= max_concurrent_scoring
    /\ sem = max_concurrent_scoring - Cardinality(InFlight)

\* The bound is reached: one invocation in flight, the other caller waiting.
C12_Witness ==
    /\ max_concurrent_scoring = 1
    /\ Cardinality(InFlight) = 1
    /\ \E c \in GateCallers : call[c].pc = "wait_sem"

\* C13: a request that entered the semaphore while no permit was left is not
\* dropped: it is woken and its check_and_create_alert call starts.
C13_WaiterEventuallyScored ==
    \A c \in GateCallers : (call[c].pc = "wait_sem") ~> (call[c].pc = "dedup")

\* A bar that passed the volume and cooldown filters of wildcard mode waits
\* for the semaphore.
C13_Witness ==
    /\ monitor_all
    /\ bar.decision = "scored"
    /\ call["stream"].pc = "wait_sem"
    /\ call["poller"].pc \in HoldingSemaphore

\* The stream handler has decided on a bar in this step.
StreamDecided == bar' # bar /\ bar'.decision # "none"

\* C14: in wildcard mode the stream handler scores a bar only if its volume
\* exceeds min_volume_to_consider and the ticker is out of its cooldown; a
\* bar at or below the threshold, or inside the cooldown, is not scored and
\* leaves the last-checked map as it was.
C14_ScoresOnlyAboveThreshold ==
    [][(monitor_all /\ StreamDecided) =>
          /\ bar'.decision = "scored" =>
                /\ bar'.volume > min_volume_to_consider
                /\ ~InCooldown(ticker_last_check, bar'.ticker, mono)
          /\ (\/ bar'.volume <= min_volume_to_consider
              \/ InCooldown(ticker_last_check, bar'.ticker, mono)) =>
                /\ bar'.decision = "skipped"
                /\ call'["stream"].pc = "idle"
                /\ ticker_last_check' = ticker_last_check]_vars

\* C14, amended: in wildcard mode the stream handler scores a bar if and
\* only if its volume is at least min_volume_to_consider and the ticker is
\* out of its cooldown, and then records the time in the last-checked map; a
\* bar below the threshold, or inside the cooldown, is not scored and leaves
\* the last-checked map as it was.
C14_ScoresAtOrAboveThreshold ==
    [][(monitor_all /\ StreamDecided) =>
          LET passes == /\ bar'.volume >= min_volume_to_consider
                        /\ ~InCooldown(ticker_last_check, bar'.ticker, mono)
          IN /\ passes =>
                   /\ bar'.decision = "scored"
                   /\ call'["stream"].pc \in {"dedup", "wait_sem"}
                   /\ call'["stream"].ticker = bar'.ticker
                   /\ ticker_last_check' = SetCheck(ticker_last_check, bar'.ticker, mono)
             /\ ~passes =>
                   /\ bar'.decision = "skipped"
                   /\ call'["stream"].pc = "idle"
                   /\ ticker_last_check' = ticker_last_check]_vars

\* A bar above the threshold that arrived inside the cooldown was skipped.
C14_Witness ==
    /\ monitor_all
    /\ bar.decision = "skipped"
    /\ bar.volume > min_volume_to_consider
    /\ InCooldown(ticker_last_check, bar.ticker, mono)
    /\ mono > 0

\* C15: whenever the stream handler or the poller sends a ticker to scoring,
\* at least per_ticker_cooldown_seconds have passed since the orchestrator
\* last sent that ticker to scoring, in either mode.
C15_CooldownBeforeEveryScoring ==
    [][\A c \in GateCallers :
          (call[c].pc = "idle" /\ call'[c].pc # "idle") =>
              \/ call'[c].ticker \notin DOMAIN last_start
              \/ mono - last_start[call'[c].ticker] >= per_ticker_cooldown_seconds]_vars

\* C16: a poll cycle taken at the head of the loop ends in a sleep of the
\* configured interval, straight away or after its tickers were scored, and
\* the head of the loop is reached only out of that sleep (or at the start
\* of the poller): no poll follows another without the sleep between them.
C16_SleepBetweenPolls ==
    /\ [](pollpc = "head" => pollLast = "none")
    /\ [][/\ (pollpc = "head" /\ pollLast' # pollLast) => pollpc' \in {"sleep", "scoring"}
          /\ (pollpc = "scoring" /\ pollpc' # "scoring") => pollpc' = "sleep"
          /\ (pollpc' = "sleep" /\ pollpc # "sleep") =>
                poll_sleeping' = rest_poll_interval_seconds
          /\ (pollpc' = "head" /\ pollpc # "head") => pollpc \in {"sleep", "not_started"}]_vars

\* The poller sleeps after a failed request.
C16_Witness ==
    /\ pollpc = "sleep"
    /\ pollLast = "request_failed"
    /\ poll_sleeping = rest_poll_interval_seconds

\* The weighted sum of the four sub-scores a returned result is built on, in
\* units of 1/TotalPoint.
WeightedBase ==
    volume_score.score * score_config.weights.volume_technical
    + catalyst_score.score * score_config.weights.catalyst
    + short_squeeze_score.score * score_config.weights.short_squeeze
    + fundamental_score.score * score_config.weights.fundamental

\* The magnitudes of the penalties that apply to the call at hand, in points.
PenaltyMagnitudes ==
    LET Magnitude(p) == IF p < 0 THEN 0 - p ELSE p
    IN  (IF dilution_risk.has_recent_dilution
         THEN Magnitude(score_config.penalties.recent_dilution) ELSE 0)
        + (IF dilution_risk.has_reverse_split
           THEN Magnitude(score_config.penalties.upcoming_rs) ELSE 0)
        + (IF ~fundamental_score.passes_filters
           THEN Magnitude(score_config.penalties.negative_cash_flow) ELSE 0)

\* What the sub-scores, the penalties and the bonuses of a returned result
\* come to before the clamp, in units of 1/TotalPoint.
Unclamped ==
    WeightedBase - PenaltyMagnitudes * TotalPoint + score_result.bonuses * TotalPoint

\* C17: the total score calculate_score returns is the weighted sum of the
\* four sub-scores, minus the sum of the magnitudes of the penalties that
\* apply, plus the bonuses, clamped to [0, 100]; so it lies within [0, 100].
C17_TotalIsClampedWeightedSum ==
    scpc = "returned" =>
        /\ score_result.penalties = PenaltyMagnitudes
        /\ score_result.total_score =
               (IF Unclamped < 0 THEN 0
                ELSE IF Unclamped > 100 * TotalPoint THEN 100 * TotalPoint
                ELSE Unclamped)
        /\ score_result.total_score >= 0
        /\ score_result.total_score <= 100 * TotalPoint

\* A result with a penalty and a bonus applied whose total the clamp leaves
\* as it is.
C17_Witness ==
    /\ scpc = "returned"
    /\ score_result.penalties > 0
    /\ score_result.bonuses > 0
    /\ Unclamped > 0
    /\ Unclamped < 100 * TotalPoint
    /\ score_result.total_score = Unclamped

\* C18: each of the four sub-scores that calculate_score weights lies within
\* [0, 100], whatever the data sources answered.
C18_SubScoresWithinRange ==
    scpc = "returned" =>
        \A s \in {volume_score.score, catalyst_score.score,
                  short_squeeze_score.score, fundamental_score.score} :
            s >= 0 /\ s <= 100 * Point

\* C19: a result qualifies exactly when its total and its volume/technical,
\* catalyst and fundamental sub-scores each reach their floor and the
\* dilution-risk flag is false; a total of 80 or more with a
\* volume/technical score of 15 does not qualify.
C19_QualifiesIffEveryFloorHolds ==
    scpc = "returned" =>
        (score_result.qualifies <=>
            /\ score_result.total_score
                   >= score_config.thresholds.min_total_score * TotalPoint
            /\ volume_score.score
                   >= score_config.thresholds.min_volume_technical_score * Point
            /\ catalyst_score.score
                   >= score_config.thresholds.min_catalyst_score * Point
            /\ fundamental_score.score
                   >= score_config.thresholds.min_fundamental_score * Point
            /\ ~dilution_risk.has_dilution_risk)

\* Under the defaults, a total of at least 80 with every other floor reached
\* and no dilution risk, and a volume/technical score of 15 under its floor
\* of 20: the result does not qualify.
C19_Witness ==
    /\ scpc = "returned"
    /\ score_config = DefaultConfig
    /\ score_result.total_score >= 80 * TotalPoint
    /\ volume_score.score = 15 * Point
    /\ catalyst_score.score >= 25 * Point
    /\ fundamental_score.score >= 12 * Point
    /\ ~dilution_risk.has_dilution_risk
    /\ ~score_result.qualifies

\* The sub-score or flag of a component, as a returned result holds it, is
\* what the component gives when it has nothing to say.
Degraded(component) ==
    CASE component = "catalyst" -> catalyst_score.score = 0
      [] component = "short_squeeze" -> short_squeeze_score.score = 0
      [] component = "fundamental" -> fundamental_score.score = 0
      [] component = "pump_potential" -> ~pump_potential.has_pump_potential
      [] component = "dilution" -> ~dilution_risk.has_dilution_risk
      [] OTHER -> volume_score.score = 0

\* C20: calculate_score returns a result whatever component fails: no
\* exception leaves it, and the sub-score of a failed component is 0.
C20_FailureDegradesToZero ==
    /\ scpc # "raised"
    /\ scpc = "returned" => \A component \in failed : Degraded(component)

\* The positions of calculate_score after _calculate_volume_technical_score
\* has returned.
AfterVolumeTechnical ==
    {"catalyst", "short_squeeze", "fundamental", "pump_potential", "dilution", "returned"}

\* The points _calculate_volume_technical_score gives for the indicators and
\* the breakout of the world.
TechnicalPoints ==
    IF world.tech.status # "ok" THEN 0
    ELSE (IF "bullish_crossover" \in world.tech.signals THEN 15 * Point ELSE 0)
         + (IF "macd_bullish" \in world.tech.signals THEN 10 * Point ELSE 0)
         + (IF "price_above_sma" \in world.tech.signals THEN 10 * Point ELSE 0)
         + (IF "rsi_oversold" \in world.tech.signals THEN 5 * Point ELSE 0)
         + (IF world.breakout = "yes" THEN 15 * Point ELSE 0)

\* Every store and tool of the world answers.
WorldAnswers ==
    /\ world.price_row.ok /\ world.stats.ok
    /\ world.tech.status # "fail" /\ world.breakout # "fail"

C21_WitnessSubstituted ==
    /\ world.current_volume = None
    /\ world.price_row.found
    /\ scpc = "returned"
    /\ current_volume = <<world.price_row.volume>>
    /\ "Volume spike" \in volume_score.factors

C22_WitnessAbove ==
    /\ scpc = "returned"
    /\ Truthy(current_volume)
    /\ current_volume[1] = 5 * world.stats.average_volume + 1
    /\ volume_score.exceptional_volume

\* C23: what detect_volume_spike answered to a call with a volume: over an
\* average volume of 0 no spike, a multiplier of 0 and the insufficient-data
\* reason, nothing having been divided; over any other average a spike
\* exactly when the volume is at least 2.5 times the average.
C23_SpikeIffAtThreshold ==
    scpc \in AfterVolumeTechnical /\ Truthy(current_volume) =>
        IF world.stats.average_volume = 0
        THEN /\ ~volume_spike.has_spike
             /\ volume_spike.num = 0
             /\ volume_spike.reason = "Insufficient historical data"
             /\ ~volume_spike.divided
        ELSE /\ volume_spike.has_spike
                    <=> current_volume[1] * 10 >= 25 * world.stats.average_volume
             /\ volume_spike.num * world.stats.average_volume
                    = current_volume[1] * volume_spike.den

\* A call with a volume over an average of 0 has returned.
C23_Witness ==
    /\ scpc = "returned"
    /\ Truthy(current_volume)
    /\ world.stats.ok /\ world.stats.average_volume = 0
    /\ volume_spike.reason = "Insufficient historical data"

\* A volume of exactly 2.5 times the average has been taken as a spike.
C23_WitnessAtThreshold ==
    /\ scpc = "returned"
    /\ Truthy(current_volume)
    /\ current_volume[1] * 10 = 25 * world.stats.average_volume
    /\ volume_spike.has_spike

C24_AcceptedSeriesGiveSnapshot ==
    tipc \in {"returned", "raised"} /\ technical_data.status # "price_history" =>
        IF Len(prices) < periods.sma_long
        THEN /\ tipc = "returned"
             /\ technical_data.status = "Insufficient data"
             /\ technical_data.computed = {}
        ELSE /\ tipc = "returned"
             /\ technical_data.status = "ok"

\* The part of C24 on the histories shorter than sma_long_period alone.
C24_ShortSeriesInsufficient ==
    tipc \in {"returned", "raised"} /\ technical_data.status # "price_history"
    /\ Len(prices) < periods.sma_long =>
        /\ tipc = "returned"
        /\ technical_data.status = "Insufficient data"
        /\ technical_data.computed = {}

\* No close of the history is below the close before it.
NoLosingStep == \A i \in 1..(Len(prices) - 1) : prices[i + 1] >= prices[i]

\* C30: the RSI of a snapshot over a price history without a losing step
\* (an average loss of 0) is 100.
C30_NoLossRsiIs100 ==
    tipc = "returned" /\ technical_data.status = "ok"
    /\ technical_data.rsi # None /\ NoLosingStep =>
        technical_data.rsi[1].num = 100 * technical_data.rsi[1].den

\* What the code returns there: an RSI of 0, and with it the rsi_oversold
\* signal.
C30_NoLossRsiIs0 ==
    tipc = "returned" /\ technical_data.status = "ok"
    /\ technical_data.rsi # None /\ NoLosingStep =>
        /\ technical_data.rsi[1].num = 0
        /\ "rsi_oversold" \in technical_data.signals

\* A step of _track_alert by the call c.
TrackStep(c) == call[c].pc = "track" /\ call'[c].pc # "track"

\* The hour bucket of the prune's cutoff at time t.
CutoffBucket(t) == (t - deduplication_window) \div HourMinutes

\* C29: when _track_alert has recorded its key and the set then holds more
\* than 1,000 keys, the set it leaves holds no key of an hour bucket at or
\* before the cutoff's (now less the deduplication window), and holds every
\* key of a later bucket.
C29_PruneDropsOldKeys ==
    [][\A c \in Callers :
          TrackStep(c)
          /\ Cardinality(recent_alerts \cup {AlertKey(call[c].ticker, now)})
                 > RecentPruneThreshold
          => /\ \A k \in recent_alerts' : k[2] > CutoffBucket(now)
             /\ \A k \in recent_alerts \cup {AlertKey(call[c].ticker, now)} :
                    k[2] > CutoffBucket(now) => k \in recent_alerts']_vars

\* What the code does there: no key leaves the set.
C29_NothingIsPruned ==
    [][\A k \in recent_alerts : k \in recent_alerts']_vars

\* The alert the push task p is for is a row of the alerts table.
AlertStored(p) ==
    \E i \in 1..Len(db) :
        /\ db[i].ticker = p.ticker
        /\ db[i].created_at <= p.created_at
        /\ db[i].via = "check"

\* A push task has ended in this step.
PushEnds == pushLast' # pushLast

\* C28: every alert that is being pushed, or has been, is stored; and the
\* step in which a push ends, whatever it came to, ends that one task and
\* starts none (no retry), leaves the alerts table and the recent set as
\* they are, and leaves the calls of the stream handler and of the poller,
\* the scoring semaphore and the position of the poller loop and of the
\* listen loop as they are.
C28_PushAfterStoreNoRetry ==
    /\ [](\A p \in pushes : AlertStored(p))
    /\ [](pushLast # NoPush => AlertStored(pushLast))
    /\ [][PushEnds =>
             /\ pushes' = pushes \ {[ticker |-> pushLast'.ticker, by |-> pushLast'.by,
                                     created_at |-> pushLast'.created_at]}
             /\ pushes' # pushes
             /\ UNCHANGED <<db, recent_alerts, call, sem, pollpc, wspc, app_running,
                            running>>]_vars

\* A push has failed while the stream handler that created the alert is at
\* work on a later bar and the poller loop goes on.
C28_Witness ==
    /\ pushLast.outcome \in {"non_200", "error"}
    /\ pushLast.by = "stream"
    /\ call["stream"].pc # "idle"
    /\ pollpc \in {"head", "scoring", "sleep"}
    /\ AlertStored(pushLast)

\* C26: when stop() closes the pool of the alerts store, no call of
\* check_and_create_alert is under way: a call that was in flight at the
\* shutdown signal has run to its end before, its alert write included.
C26_InFlightCallsEndBeforeClose ==
    [][storage = "open" /\ storage' = "closed"
          => InFlight = {}]_vars

\* The narrower statement of C26: the pool is never closed on a call that
\* has its score and has not written its alert yet.
C26_NoCloseBetweenScoreAndWrite ==
    [][storage = "open" /\ storage' = "closed"
          => \A c \in GateCallers : call[c].pc # "insert"]_vars

\* What follows in the code: a call that has its score ends without its
\* alert write because the pool was closed under it.
C26_NoWriteLostToClose ==
    [][\A c \in GateCallers :
          ~(storage = "closed" /\ call[c].pc = "insert" /\ call'[c].pc = "idle")]_vars

\* disconnect() has been called on a started listener and nothing has set
\* running again.
ListenerStopped == ~running /\ wspc \notin {"constructed", "start_failed"}

\* C27: once disconnect() has stopped the listener it stays stopped,
\* whatever the listen task was at (an in-progress connect, a backoff
\* sleep): running is not set again, so that no connection is opened, no
\* subscribe sent and no frame read after it.
C27_StoppedListenerStaysStopped ==
    [][ListenerStopped => ~running']_vars

\* The other half of C27 for the listen loop: once stopped, the listen task
\* returns.
C27_StoppedListenerReturns ==
    ListenerStopped ~> wspc = "returned"

\* C27 for the poller: once running is False the poller sends no further
\* ticker to scoring.
C27_StoppedPollerScoresNothing ==
    [][~app_running /\ pollpc # "not_started" /\ call["poller"].pc = "idle"
          => call'["poller"].pc = "idle"]_vars

\* A disconnect() that meets the listen task in its backoff sleep, or in
\* its read, does stop it: the task returns at the next head of its loop.
C27_StoppedInSleepReturns ==
    [][ListenerStopped /\ wspc = "sleep" /\ wspc' # wspc
          => wspc' = "returned"]_vars

\* calculate_all_indicators has returned its dictionary.
IndicatorsReturned == tipc = "returned" /\ technical_data.status = "ok"

\* C31: the derived signal macd_bullish, which earns the volume_technical
\* sub-score its +10 points, is set exactly when the MACD crossover of the
\* price series is "bullish".
C31_MacdBullishIffTrendBullish ==
    IndicatorsReturned =>
        ("macd_bullish" \in technical_data.signals
             <=> technical_data.trend = "bullish")

\* What the code does instead: macd_bullish compares the float under
\* "signal" with the string "bullish", and is never set.
C31_MacdBullishNeverSet ==
    "macd_bullish" \notin technical_data.signals

\* A series whose MACD crosses its signal line upwards at the last bar.
C31_BullishTrendReached ==
    IndicatorsReturned /\ technical_data.trend = "bullish"

\* The sustained check alone: one call under each setting of the periods,
\* each answer of the price history and each answer of the statistics.
InitSustainedAlone == InitAlertSerial /\ InitStream /\ InitOrchDefault /\ InitScorerIdle
    /\ InitIndicatorsIdle /\ InitLife /\ InitSustained /\ InitOtherIdle

SpecSustained == InitSustainedAlone /\ [][NextSustained]_vars

\* The bars of the window that count: those of the last sustained_periods
\* whose volume is at least 0.7 * 2.5 times the average.
CountedBars ==
    {i \in DOMAIN bar_history.volumes :
        /\ i > Len(bar_history.volumes) - sustained_periods
        /\ bar_history.volumes[i] * 100 >= 7 * volume_multiplier * bar_stats.average_volume}

SustainedReturned == svpc = "returned" /\ bar_history.ok /\ bar_stats.ok

\* C32: with both queries answered, is_sustained holds exactly when the
\* window has at least N bars, the average volume is not 0 and at least 70%
\* of the last N bars have a volume of at least 0.7 times the spike
\* threshold times the average.
C32_SustainedIffSeventyPercent ==
    SustainedReturned =>
        (is_sustained <=>
            /\ Len(bar_history.volumes) >= sustained_periods
            /\ bar_stats.average_volume # 0
            /\ Cardinality(CountedBars) * 10 >= 7 * sustained_periods)

\* A query that raises gives False as well.
C32_FailedQueryNotSustained ==
    svpc = "returned" /\ (~bar_history.ok \/ ~bar_stats.ok) => ~is_sustained

\* Three of the last four bars count, the one before them does not.
C32_Witness ==
    /\ SustainedReturned /\ is_sustained
    /\ sustained_periods = 4
    /\ Len(bar_history.volumes) = 5
    /\ Cardinality(CountedBars) = 3
    /\ bar_history.volumes[1] = 6

\* Two of the last three bars count: not sustained.
C32_WitnessBelow ==
    /\ SustainedReturned /\ ~is_sustained
    /\ sustained_periods = 3
    /\ Cardinality(CountedBars) = 2

\* The poller's thresholds alone: poll cycles in every session under each
\* configured minimum volume.
InitSessionAlone == InitAlertSerial /\ InitStream /\ InitOrchDefault /\ InitScorerIdle
    /\ InitIndicatorsIdle /\ InitLife /\ InitSustainedIdle /\ InitSession
    /\ deduplication_window = deduplication_window_minutes /\ InitBreakoutIdle

SpecSession == InitSessionAlone /\ [][NextSession]_vars

ExtendedSessions == {"pre_market", "after_hours"}

\* C33: the threshold the poller applies in the pre-market and after-hours
\* sessions is at most the one it applies in the regular session.
C33_ExtendedThresholdAtMostRegular ==
    \A s \in ExtendedSessions :
        applied[s] # None /\ applied["regular"] # None
            => applied[s][1] <= applied["regular"][1]

\* What does hold: from the floor of 50,000 on, the extended threshold is
\* at most the regular one.
C33_AtMostRegularFromFloorOn ==
    rest_poll_min_volume >= extended_floor =>
        \A s \in ExtendedSessions :
            applied[s] # None /\ applied["regular"] # None
                => applied[s][1] <= applied["regular"][1]

\* An item the regular session keeps for scoring and the pre-market drops.
C33_KeptInRegularDroppedInExtended ==
    /\ session = "pre_market" /\ picked = <<FALSE>>
    /\ applied["regular"] # None
    /\ \E vol \in ItemVolumes :
          vol >= applied["regular"][1] /\ vol < applied["pre_market"][1]

\* A durable alert of the ticker is younger than the deduplication window.
DurableInWindow(rows, ticker, t) ==
    \E i \in 1..Len(rows) :
        rows[i].ticker = ticker /\ t - rows[i].created_at < deduplication_window

\* C34: the deduplication check reports a duplicate whenever a durable alert
\* of the ticker exists within the deduplication window, however many
\* alerts of other tickers were stored in that window.
C34_DuplicateWheneverDurableInWindow ==
    [][\A c \in GateCallers :
         DedupStep(c) /\ DurableInWindow(db, call[c].ticker, now)
             => last'.outcome = "duplicate"]_vars

\* What does hold: the check reports a duplicate whenever an alert of the
\* ticker is among the DedupQueryLimit newest alerts of the window.
C34_DuplicateWhenAmongNewest ==
    [][\A c \in GateCallers :
         DedupStep(c) /\ SeenInWindow(db, call[c].ticker, now)
             => last'.outcome = "duplicate"]_vars

\* A call has passed the deduplication check with an alert of its ticker
\* inside the window, behind DedupQueryLimit newer alerts of another ticker.
C34_PassedBehindOtherAlerts ==
    \E c \in GateCallers :
        /\ call[c].pc = "rate"
        /\ DurableInWindow(db, call[c].ticker, now)
        /\ ~SeenInWindow(db, call[c].ticker, now)

\* alerts.deduplication_window_minutes: a third of an hour, and the default.
DedupWindows == {20, deduplication_window_minutes}

\* The serial gate under each configured deduplication window.
InitGateWindows == InitAlertSerial /\ InitStream /\ InitOrchDefault /\ InitScorerIdle
    /\ InitIndicatorsIdle /\ InitLife /\ InitSustainedIdle /\ InitSessionIdle
    /\ deduplication_window \in DedupWindows /\ InitBreakoutIdle

SpecAlertWindows == InitGateWindows /\ [][NextAlertSerial]_vars

\* C35: a call is rejected as duplicate only if an alert of its ticker was
\* created within the configured deduplication window.
C35_DuplicateOnlyInsideWindow ==
    [][\A c \in GateCallers :
         DedupStep(c) /\ last'.outcome = "duplicate"
             => DurableInWindow(db, call[c].ticker, now)]_vars

\* What does hold: with a window of an hour or more, a rejection as
\* duplicate has an alert of the ticker inside the window.
C35_OnlyInsideWindowOfAnHour ==
    [][\A c \in GateCallers :
         DedupStep(c) /\ last'.outcome = "duplicate"
                      /\ deduplication_window >= HourMinutes
             => DurableInWindow(db, call[c].ticker, now)]_vars

\* A call was rejected as duplicate by the hour-bucket key of an alert
\* older than the window.
C35_RejectedByKeyOutsideWindow ==
    /\ last.entry = "check" /\ last.outcome = "duplicate"
    /\ AlertKey(last.ticker, now) \in recent_alerts
    /\ ~DurableInWindow(db, last.ticker, now)

\* The rows the gate's two entry points have stored.
GateRows == {i \in 1..Len(db) : db[i].via \in {"check", "from_score"}}

\* The alert of row i has its key recorded: the key of an hour from the one
\* of the insert on.
KeyRecorded(i) ==
    \E k \in recent_alerts : k[1] = db[i].ticker /\ k[2] >= db[i].created_at \div HourMinutes

C36_FailedInsertChangesNothing ==
    [][\A c \in Callers :
         call[c].pc = "insert" /\ last'.outcome = "error"
             => db' = db /\ recent_alerts' = recent_alerts]_vars

C36_WitnessFailed ==
    last.outcome = "error" /\ last.scored /\ ~last.stored /\ ~last.tracked

\* ------------------------------------------------------------------
\* C37: when the server closes the connection right after every subscribe,
\* the delays of the listener's successive reconnects double (up to
\* max_backoff): of two successive sleeps that both follow such a close, the
\* second is the doubled first.  The code resets reconnect_backoff after
\* every sent subscribe (line 183), so the formula is violated.
C37_DelaysDoubleAfterSubscribeCloses ==
    (delays[1].after_subscribe /\ delays[2].after_subscribe)
        => delays[2].delay = NextBackoff(delays[1].delay)

\* C37, what the code does: every sleep after a close that follows a sent
\* subscribe message lasts initial_backoff.
C37_DelayAfterSubscribeCloseIsInitial ==
    delays[2].after_subscribe => delays[2].delay = initial_backoff

\* C37: two successive reconnects after such closes, both after
\* initial_backoff.
C37_ConstantDelaysReached ==
    /\ delays[1].after_subscribe
    /\ delays[2].after_subscribe
    /\ delays[1].delay = initial_backoff
    /\ delays[2].delay = initial_backoff

\* ------------------------------------------------------------------
\* The storage pools the handler's connects opened and nobody closed: the
\* pool self.pool holds, when open, and the pools it held before.
OpenPools == leaked_pools + (IF ts_pool = "open" THEN 1 ELSE 0)

\* C38: over any sequence of connection losses and reconnects the handler
\* holds at most one open socket and at most one open storage pool.  Every
\* connect creates a pool and overwrites self.pool (sql_client.py line 21),
\* so the formula is violated.
C38_AtMostOneOpenPool == OpenPools <= 1

\* C38, the part about the pools the handler can still reach: self.pool is
\* the only pool disconnect closes, every pool opened before it stays open.
C38_DisconnectLeavesEarlierPools ==
    [][Disconnect => leaked_pools' = leaked_pools /\ ts_pool' # "open"]_vars

\* C38: a reconnect has opened a second pool while the first is open.
C38_TwoPoolsReached == ts_pool = "open" /\ leaked_pools >= 1 /\ failStreak >= 1

\* ------------------------------------------------------------------
\* The breakout check alone, over every stored history, with the stream
\* handler storing bars at any time.
InitBreakoutAlone == InitAlertSerial /\ InitStream /\ InitOrchDefault /\ InitScorerIdle
    /\ InitIndicatorsIdle /\ InitLife /\ InitSustainedIdle /\ InitSessionIdle
    /\ deduplication_window = deduplication_window_minutes /\ InitBreakout

SpecBreakout == InitBreakoutAlone /\ [][NextBreakout]_vars

\* Every bar closes at or below its high, and the latest bar lies inside the
\* lookback window.
CloseAtMostHigh(rows) ==
    /\ rows # <<>>
    /\ \A i \in 1..Len(rows) : rows[i].close <= rows[i].high
    /\ rows[Len(rows)].in_window

\* C39: on a bar history in which every bar has close <= high and the latest
\* bar lies inside the lookback window, detect_breakout returns
\* has_breakout = false.  The call raises TypeError instead (line 282
\* subtracts a float from a Decimal), so the formula is violated.
C39_ReturnsNoBreakout ==
    [][BreakoutCurrentPrice /\ ~stored_during /\ CloseAtMostHigh(stock_prices)
          => breakout_result' = [raised |-> "none", value |-> <<FALSE>>]]_vars

\* C39, the consequence: no call of detect_breakout returns has_breakout =
\* true, whatever is stored and whenever.
C39_BreakoutNeverReturnedTrue == breakout_result.value # <<TRUE>>

\* C39, what the code does: a call that finds a high and a latest row
\* raises TypeError.
C39_RaisesOnData ==
    brpc = "done" /\ Truthy(price_range.high) /\ current_price_data # None
        => breakout_result.raised = "TypeError"

\* C39: a call over an unchanged history of the claim's kind has raised.
C39_RaisedOnQuietHistory ==
    /\ brpc = "done"
    /\ ~stored_during
    /\ CloseAtMostHigh(stock_prices)
    /\ breakout_result.raised = "TypeError"

\* ------------------------------------------------------------------
\* The failed-filters penalty of the configuration, in points.
FailedFiltersPenalty == Abs(score_config.penalties.negative_cash_flow)

\* The sub-scores and the total of the returned result reach their floors.
FloorsReached ==
    /\ score_result.total_score >= score_config.thresholds.min_total_score * TotalPoint
    /\ volume_score.score >= score_config.thresholds.min_volume_technical_score * Point
    /\ catalyst_score.score >= score_config.thresholds.min_catalyst_score * Point
    /\ fundamental_score.score >= score_config.thresholds.min_fundamental_score * Point

\* C40: when the dilution-risk adapter fails, the result's dilution-risk
\* flag is false, neither the recent-dilution nor the reverse-split penalty
\* is applied (the penalties are the failed-filters penalty or nothing) and
\* the ticker qualifies exactly when its scores reach their floors; when the
\* fundamental adapter fails, the fundamental sub-score is 0 and the
\* failed-filters penalty is applied.
C40_AdapterFailuresDegrade ==
    scpc = "returned" =>
        /\ "dilution" \in failed =>
               /\ ~dilution_risk.has_dilution_risk
               /\ ~dilution_risk.has_recent_dilution
               /\ ~dilution_risk.has_reverse_split
               /\ score_result.penalties =
                      IF fundamental_score.passes_filters THEN 0 ELSE FailedFiltersPenalty
               /\ score_result.qualifies = FloorsReached
        /\ "fundamental" \in failed =>
               /\ fundamental_score.score = 0
               /\ ~fundamental_score.passes_filters
               /\ score_result.penalties >= FailedFiltersPenalty
               /\ FailedFiltersPenalty > 0

\* C40: a ticker has qualified although its dilution-risk adapter failed.
C40_Witness ==
    /\ scpc = "returned"
    /\ "dilution" \in failed
    /\ score_result.qualifies
    /\ score_result.penalties = 0

\* C40: a result after the fundamental adapter failed, with the
\* failed-filters penalty as the only penalty.
C40_WitnessFundamental ==
    /\ scpc = "returned"
    /\ "fundamental" \in failed
    /\ fundamental_score.score = 0
    /\ score_result.penalties = FailedFiltersPenalty

====
